---- MODULE Spec2Model ----
(***************************************************************************)
(* A model of the crypto-coin node: the Blockchain object (chain, balance  *)
(* cache, confirmation index), the Mempool, the NetworkManager handlers    *)
(* for BLOCK / CHAIN_REQUEST / CHAIN_RESPONSE / TRANSACTION frames and the *)
(* MiningNode tick.  A node is a MiningNode (mining identity "A") or a     *)
(* plain NetworkManager.  The wire is adversarial: a socket that belongs   *)
(* to no modelled node may send any frame.                                 *)
(*                                                                         *)
(* Spec        : one node, of either class, with a wallet's and an         *)
(*               outsider's socket, at one instant.                        *)
(* SpecMempool : one MiningNode, its wallets and its mempool, over time.   *)
(* SpecNet     : a MiningNode and a plain manager that connect, gossip and *)
(*               synchronise.                                              *)
(* SpecApi     : the Blockchain of one node with replaceChain called on it.*)
(*                                                                         *)
(* Idealisations: SHA-256 is collision free (a hash value carries the      *)
(* canonical encoding it was computed from) and the number of leading zero *)
(* digits of a block hash is the block's nonce; an RSA signature verifies  *)
(* exactly under the key that made it over the data it was made over.      *)
(* Amounts are integers.                                                   *)
(***************************************************************************)
EXTENDS Integers, Sequences, FiniteSets, TLC

VARIABLES
    chain,          \* Blockchain.chain of each node
    balances,       \* Blockchain.balances of each node (address -> confirmed)
    confirmations,  \* Blockchain.transactionConfirmations of each node
    mempool,        \* Mempool.pendingTransactions of each node, in insertion order
    peers,          \* P2PNode.peers of each node (ids of handshaken peers)
    knownPeers,     \* NetworkManager.knownPeers of each node
    walletConnections, \* NetworkManager.walletConnections of each node
    isWalletNode,   \* NetworkManager.isWalletNode of each node (constructed with a wallet)
    net,            \* frames in flight, one FIFO per ordered pair of nodes
    miners,         \* the nodes constructed as a MiningNode (the others are plain managers)
    mining,         \* of each node: MiningNode.isMining, miningInterval and miningWallet,
                    \* P2PNode.isActive, and the number of intervals the runtime has
                    \* scheduled for the node
    now,            \* Date.now()
    relayed,        \* of each observed node: the ids of the transactions and the
                    \* hashes of the blocks it has received and sent on to a peer,
                    \* one entry per broadcast (no node is observed unless the
                    \* specification says so)
    last            \* the operation performed by the last step, with its outcome

vars == <<chain, balances, confirmations, mempool, peers, knownPeers, walletConnections,
          isWalletNode, net, miners, mining, now, relayed, last>>

----------------------------------------------------------------------------
(* Bounds of the model *)

\* longest chain (genesis included) a node is driven to, and an injected chain has
MaxChain == 3
\* the clock runs from 0 to MaxTime
MaxTime == 1
\* frames in flight per ordered pair of nodes
MaxInFlight == 4
\* BLOCKCHAIN_CONSTANTS.MAX_TRANSACTIONS_PER_BLOCK (2000 in the source), scaled down:
\* the default Mempool capacity, and one more than a mined block's mempool slice
MAX_TRANSACTIONS_PER_BLOCK == 2
\* the Mempool's transactionTimeout (3600000 ms in the source), in clock ticks
TransactionTimeout == 0

(* Program constants *)
INITIAL_BLOCK_REWARD == 50
HALVING_INTERVAL == 210000
INITIAL_DIFFICULTY == 4
\* the genesis timestamp, 1700000000000 ms in the source: the origin of the clock
GenesisTimestamp == 0
HashLength == 64

\* the managers of the networks of two, and every manager modelled: N3 takes
\* part only where three managers form a ring
Nodes == {"N1", "N2"}
Managers == Nodes \cup {"N3"}
Keys == {"A", "B"}
Null == "null"
\* the public key of the mining wallet's current identity
MiningKey(n) == "A"

----------------------------------------------------------------------------
(* JavaScript values and strings *)

\* a JS number is <<n>>; undefined and NaN are <<>>
Undefined == <<>>
JsMinus(a, v) == IF v = <<>> THEN <<>> ELSE <<a - v[1]>>
\* String.prototype.repeat: the count goes through ToIntegerOrInfinity
Repeat(c, v) == [i \in 1..(IF v = <<>> THEN 0 ELSE v[1]) |-> c]

Min(a, b) == IF a < b THEN a ELSE b

----------------------------------------------------------------------------
(* Transactions and signatures *)

NoSignature == [by |-> "none", over |-> <<>>]

\* the JSON object that is signed and verified
TransactionData(tx) ==
    <<tx.id, tx.sender, tx.recipient, tx.amount, tx.timestamp, tx.isCoinbase>>

\* crypto.createSign('SHA256') ... sign(privateKey of key)
Sign(tx, key) == [by |-> key, over |-> TransactionData(tx)]

Signed(tx, key) == [tx EXCEPT !.signature = Sign(tx, key)]

\* verify.verify(publicKey, signature)
Verify(publicKey, data, signature) ==
    /\ signature.by = publicKey
    /\ signature.over = data

verifyTransactionSignature(tx) ==
    IF tx.signature = NoSignature THEN FALSE
    ELSE LET publicKey == IF tx.isCoinbase THEN tx.recipient ELSE tx.sender
         IN  IF publicKey = Null \/ publicKey = "" THEN FALSE
             ELSE Verify(publicKey, TransactionData(tx), tx.signature)

\* INITIAL_BLOCK_REWARD / 2^floor(blockIndex / HALVING_INTERVAL); exact for the
\* indices of the model, which lie below 2 * HALVING_INTERVAL
ExpectedReward(blockIndex) ==
    INITIAL_BLOCK_REWARD \div (2 ^ (blockIndex \div HALVING_INTERVAL))

validateCoinbaseTransaction(tx, blockIndex) ==
    /\ tx.isCoinbase
    /\ tx.amount = ExpectedReward(blockIndex)
    /\ verifyTransactionSignature(tx)

\* the mutation of validateTransaction that does not verify the signature
validateTransactionUnsigned(tx) ==
    IF tx.isCoinbase THEN TRUE
    ELSE /\ ~(tx.sender = Null \/ tx.sender = "")
         /\ ~(tx.recipient = "")
         /\ ~(tx.amount <= 0)

validateTransaction(tx) ==
    IF tx.isCoinbase THEN TRUE
    ELSE /\ ~(tx.sender = Null \/ tx.sender = "")
         /\ ~(tx.recipient = "")
         /\ ~(tx.amount <= 0)
         /\ verifyTransactionSignature(tx)

----------------------------------------------------------------------------
(* Blocks and hashes *)

\* the JSON object that is hashed (the hash field excluded)
BlockData(block) ==
    <<block.index, block.previousHash, block.timestamp, block.transactions,
      block.nonce, block.miner, block.reward>>

\* SHA-256 of the canonical encoding: lz leading zero digits, over that encoding
calculateHash(block) ==
    [lz |-> Min(block.nonce, HashLength), of |-> BlockData(block)]

\* hash.startsWith("0".repeat(difficulty))
StartsWithZeros(hash, difficulty) == hash.lz >= difficulty

\* "0".repeat(d) + "1" + "0".repeat(63 - d), d being this.difficulty when
\* createGenesisBlock runs
GenesisPreviousHash(d) ==
    Repeat("0", d) \o <<"1">> \o Repeat("0", JsMinus(HashLength - 1, d))

createGenesisBlock(thisDifficulty) ==
    LET genesisBlock ==
            [index |-> 0,
             previousHash |-> [str |-> GenesisPreviousHash(thisDifficulty)],
             timestamp |-> GenesisTimestamp,
             transactions |-> <<>>,
             nonce |-> 0,
             hash |-> [str |-> <<>>],
             miner |-> "GENESIS",
             reward |-> 0]
    IN  [genesisBlock EXCEPT !.hash = calculateHash(genesisBlock)]

\* the constructor builds the genesis block before it assigns this.difficulty
ConstructedChain(difficulty) == <<createGenesisBlock(Undefined)>>

\* the difficulty each node's Blockchain is constructed with
Difficulty(n) == INITIAL_DIFFICULTY

\* mineBlock: increment the nonce from its start until the hash meets the target
RECURSIVE mineBlock(_, _)
mineBlock(block, difficulty) ==
    LET hashed == [block EXCEPT !.hash = calculateHash(block)]
    IN  IF StartsWithZeros(hashed.hash, difficulty) THEN hashed
        ELSE mineBlock([block EXCEPT !.nonce = @ + 1], difficulty)

\* the mutation of getLastBlock that keeps to the first block
getLastBlockFirst(c) == c[1]

getLastBlock(c) == c[Len(c)]

----------------------------------------------------------------------------
(* Maps (JavaScript Map objects keyed by strings) *)

EmptyMap == [x \in {} |-> 0]
MapGet(m, k, default) == IF k \in DOMAIN m THEN m[k] ELSE default
MapSet(m, k, v) == [x \in DOMAIN m \cup {k} |-> IF x = k THEN v ELSE m[x]]

----------------------------------------------------------------------------
(* Blockchain *)

\* NetworkManager.calculateBlockHash, the manager's copy of calculateHash
calculateBlockHash(block) ==
    [lz |-> Min(block.nonce, HashLength), of |-> BlockData(block)]

IsCoinbase(tx) == tx.isCoinbase
IsRegular(tx) == ~tx.isCoinbase

\* the mutation of validateBlockTransactions that asks for at least one coinbase
validateBlockTransactionsAtLeastOne(block) ==
    LET coinbaseTransactions == SelectSeq(block.transactions, IsCoinbase)
        regularTransactions == SelectSeq(block.transactions, IsRegular)
    IN  /\ Len(coinbaseTransactions) >= 1
        /\ validateCoinbaseTransaction(coinbaseTransactions[1], block.index)
        /\ block.reward = coinbaseTransactions[1].amount
        /\ \A k \in 1..Len(regularTransactions) :
               validateTransaction(regularTransactions[k])

validateBlockTransactions(block) ==
    LET coinbaseTransactions == SelectSeq(block.transactions, IsCoinbase)
        regularTransactions == SelectSeq(block.transactions, IsRegular)
    IN  /\ Len(coinbaseTransactions) = 1
        /\ validateCoinbaseTransaction(coinbaseTransactions[1], block.index)
        /\ block.reward = coinbaseTransactions[1].amount
        /\ \A k \in 1..Len(regularTransactions) :
               validateTransaction(regularTransactions[k])

\* the mutation of isValidNewBlock that does not look at the proof of work
isValidNewBlockAnyWork(c, difficulty, block) ==
    LET lastBlock == getLastBlock(c)
    IN  /\ block.index # lastBlock.index
        /\ block.index = lastBlock.index + 1
        /\ block.previousHash = lastBlock.hash
        /\ calculateBlockHash(block) = block.hash
        /\ validateBlockTransactions(block)

isValidNewBlock(c, difficulty, block) ==
    LET lastBlock == getLastBlock(c)
    IN  /\ block.index # lastBlock.index
        /\ block.index = lastBlock.index + 1
        /\ block.previousHash = lastBlock.hash
        /\ calculateBlockHash(block) = block.hash
        /\ StartsWithZeros(block.hash, difficulty)
        /\ validateBlockTransactions(block)

\* the mutation of GenesisMatches that compares nothing
GenesisMatchesAny(own, c) == Len(c) >= 1

\* chain[0] of an empty list is undefined, whose JSON differs from the genesis's:
\* JSON.stringify(chain[0]) === JSON.stringify(this.blockchain.getChain()[0])
GenesisMatches(own, c) == Len(c) >= 1 /\ c[1] = own[1]

isValidChain(own, difficulty, c) ==
    /\ GenesisMatches(own, c)
    /\ \A i \in 2..Len(c) :
           /\ c[i].previousHash = c[i - 1].hash
           /\ StartsWithZeros(c[i].hash, difficulty)
           /\ validateBlockTransactions(c[i])

\* the mutation of shouldReplaceChain that asks for two blocks more
shouldReplaceChainByTwo(own, newChain) == Len(newChain) > Len(own) + 1

shouldReplaceChain(own, newChain) == Len(newChain) > Len(own)

\* the mutation of RunningOverTransactions that skips the debits
RECURSIVE RunningOverTransactionsCreditsOnly(_, _, _, _)
RunningOverTransactionsCreditsOnly(txs, k, address, running) ==
    IF k > Len(txs) THEN running
    ELSE RunningOverTransactionsCreditsOnly(txs, k + 1, address,
             IF txs[k].recipient = address THEN running + txs[k].amount ELSE running)

\* getAccountBalance: the running balance over the whole chain, in chain order
RECURSIVE RunningOverTransactions(_, _, _, _)
RunningOverTransactions(txs, k, address, running) ==
    IF k > Len(txs) THEN running
    ELSE LET tx == txs[k]
             debited == IF tx.sender = address THEN running - tx.amount ELSE running
             credited == IF tx.recipient = address THEN debited + tx.amount ELSE debited
         IN  RunningOverTransactions(txs, k + 1, address, credited)

RECURSIVE RunningOverChain(_, _, _, _)
RunningOverChain(c, i, address, running) ==
    IF i > Len(c) THEN running
    ELSE RunningOverChain(c, i + 1, address,
             RunningOverTransactions(c[i].transactions, 1, address, running))

\* the value getAccountBalance(address).confirmed returns and caches
getAccountBalance(c, address) == RunningOverChain(c, 1, address, 0)

\* updateTransactionConfirmation
updateTransactionConfirmation(confs, transactionId, blockHeight) ==
    MapSet(confs, transactionId,
           [blockHeight |-> blockHeight, confirmations |-> 0, status |-> "CONFIRMED"])

RECURSIVE ConfirmAll(_, _, _, _)
ConfirmAll(confs, txs, k, blockHeight) ==
    IF k > Len(txs) THEN confs
    ELSE ConfirmAll(updateTransactionConfirmation(confs, txs[k].id, blockHeight),
                    txs, k + 1, blockHeight)

\* replaceChain, the loop over one block's transactions (lines 302-345): the
\* scratch map blockBalances after it, and whether the block passed
RECURSIVE ReplaceChainTransactions(_, _, _, _)
ReplaceChainTransactions(txs, k, blockIndex, blockBalances) ==
    IF k > Len(txs) THEN [isValid |-> TRUE, blockBalances |-> blockBalances]
    ELSE LET tx == txs[k] IN
         IF tx.isCoinbase
         THEN IF ~validateCoinbaseTransaction(tx, blockIndex)
              THEN [isValid |-> FALSE, blockBalances |-> blockBalances]
              ELSE ReplaceChainTransactions(txs, k + 1, blockIndex,
                       MapSet(blockBalances, tx.recipient,
                              MapGet(blockBalances, tx.recipient, 0) + tx.amount))
         ELSE IF tx.sender = Null \/ tx.sender = ""
              THEN ReplaceChainTransactions(txs, k + 1, blockIndex, blockBalances)
         ELSE IF MapGet(blockBalances, tx.sender, 0) < tx.amount
              THEN [isValid |-> FALSE, blockBalances |-> blockBalances]
              ELSE LET debited == MapSet(blockBalances, tx.sender,
                                         MapGet(blockBalances, tx.sender, 0) - tx.amount)
                       credited == MapSet(debited, tx.recipient,
                                          MapGet(debited, tx.recipient, 0) + tx.amount)
                   IN  ReplaceChainTransactions(txs, k + 1, blockIndex, credited)

\* replaceChain, the loop over newChain[1..] (lines 297-361).  The AccountBalance
\* objects of blockBalances are shared with this.balances once a block has been
\* committed, so at a throw this.balances holds, for the addresses committed so
\* far, the values the failing block's partial processing left in blockBalances.
RECURSIVE ReplaceChainBlocks(_, _, _)
ReplaceChainBlocks(newChain, i, st) ==
    IF i > Len(newChain) THEN st
    ELSE LET block == newChain[i]
             r == ReplaceChainTransactions(block.transactions, 1, block.index,
                                           st.blockBalances)
         IN  IF ~r.isValid
             THEN [st EXCEPT !.threw = TRUE,
                             !.height = block.index,
                             !.balances = [a \in DOMAIN st.balances |-> r.blockBalances[a]]]
             ELSE ReplaceChainBlocks(newChain, i + 1,
                      [st EXCEPT !.chain = Append(@, block),
                                 !.balances = r.blockBalances,
                                 !.blockBalances = r.blockBalances,
                                 !.confirmations =
                                     ConfirmAll(@, block.transactions, 1, block.index)])

\* the mutation of NotLonger that lets a chain of equal length through
NotLongerStrict(newChain, current) == Len(newChain) < Len(current)

\* replaceChain's guard: newChain.length <= this.chain.length
NotLonger(newChain, current) == Len(newChain) <= Len(current)

\* replaceChain(newChain) on a Blockchain bc = [chain, balances, confirmations]:
\* the Blockchain after the call, whether it threw, and the height the error names
\* (0 for the length error)
replaceChain(bc, newChain) ==
    IF NotLonger(newChain, bc.chain)
    THEN [chain |-> bc.chain, balances |-> bc.balances,
          confirmations |-> bc.confirmations, blockBalances |-> EmptyMap,
          threw |-> TRUE, height |-> 0]
    ELSE ReplaceChainBlocks(newChain, 2,
             [chain |-> <<newChain[1]>>, balances |-> EmptyMap,
              confirmations |-> EmptyMap, blockBalances |-> EmptyMap,
              threw |-> FALSE, height |-> 0])

----------------------------------------------------------------------------
(* Mempool *)

\* the Mempool's maxTransactions: the constructor's default
maxTransactions == MAX_TRANSACTIONS_PER_BLOCK

RECURSIVE getPendingBalanceFrom(_, _, _)
getPendingBalanceFrom(mp, k, address) ==
    IF k > Len(mp) THEN 0
    ELSE (IF mp[k].sender = address THEN mp[k].amount ELSE 0)
         + getPendingBalanceFrom(mp, k + 1, address)

getPendingBalance(mp, address) == getPendingBalanceFrom(mp, 1, address)

\* Mempool.validateTransaction reaches the balance check (and with it the
\* caching getAccountBalance call) when the earlier checks pass
ReachesBalanceCheck(tx, t) ==
    /\ validateTransaction(tx)
    /\ ~(t - tx.timestamp > TransactionTimeout)
    /\ ~(tx.isCoinbase \/ tx.sender = Null \/ tx.sender = "")

MempoolValidateTransaction(mp, c, tx, t) ==
    /\ validateTransaction(tx)
    /\ ~(t - tx.timestamp > TransactionTimeout)
    /\ \/ tx.isCoinbase \/ tx.sender = Null \/ tx.sender = ""
       \/ ~(getPendingBalance(mp, tx.sender) + tx.amount > getAccountBalance(c, tx.sender))

\* the mutation of MempoolHas that finds nothing
MempoolHasNever(mp, id) == FALSE

\* this.transactions.has(id)
MempoolHas(mp, id) == \E k \in 1..Len(mp) : mp[k].id = id

\* Map.set: a new key is appended, an existing key keeps its place
MempoolSet(mp, tx) ==
    IF \E k \in 1..Len(mp) : mp[k].id = tx.id
    THEN [k \in 1..Len(mp) |-> IF mp[k].id = tx.id THEN tx ELSE mp[k]]
    ELSE Append(mp, tx)

\* the mutation of addTransactionAdmits that skips the capacity check
addTransactionAdmitsUnbounded(mp, c, tx, t) ==
    /\ ~MempoolHas(mp, tx.id)
    /\ ~tx.isCoinbase
    /\ MempoolValidateTransaction(mp, c, tx, t)

\* addTransaction: the value it returns
addTransactionAdmits(mp, c, tx, t) ==
    /\ ~(Len(mp) >= maxTransactions)
    /\ ~MempoolHas(mp, tx.id)
    /\ ~tx.isCoinbase
    /\ MempoolValidateTransaction(mp, c, tx, t)

\* addTransaction: whether the call gets as far as getAccountBalance(sender)
addTransactionCachesBalance(mp, tx, t) ==
    /\ ~(Len(mp) >= maxTransactions)
    /\ ~MempoolHas(mp, tx.id)
    /\ ~tx.isCoinbase
    /\ ReachesBalanceCheck(tx, t)

\* Array.prototype.sort by timestamp (stable), as an insertion sort
RECURSIVE InsertByTimestamp(_, _)
InsertByTimestamp(sorted, tx) ==
    IF sorted = <<>> THEN <<tx>>
    ELSE IF sorted[Len(sorted)].timestamp <= tx.timestamp THEN Append(sorted, tx)
    ELSE Append(InsertByTimestamp(SubSeq(sorted, 1, Len(sorted) - 1), tx),
                sorted[Len(sorted)])

RECURSIVE SortByTimestamp(_, _)
SortByTimestamp(mp, k) ==
    IF k = 0 THEN <<>> ELSE InsertByTimestamp(SortByTimestamp(mp, k - 1), mp[k])

getTransactions(mp, limit) ==
    LET sorted == SortByTimestamp(mp, Len(mp))
    IN  SubSeq(sorted, 1, Min(limit, Len(sorted)))

IdsOf(txs) == {txs[k].id : k \in 1..Len(txs)}

\* the mutation of removeTransactions that deletes nothing
removeTransactionsNone(mp, txs) == mp

removeTransactions(mp, txs) ==
    LET Keep(tx) == tx.id \notin IdsOf(txs) IN SelectSeq(mp, Keep)

removeTransaction(mp, transactionId) ==
    LET Keep(tx) == tx.id # transactionId IN SelectSeq(mp, Keep)

\* the mutation of cleanup that also drops the entries whose age is the timeout
cleanupInclusive(mp, t) ==
    LET Keep(tx) == t - tx.timestamp < TransactionTimeout IN SelectSeq(mp, Keep)

cleanup(mp, t) ==
    LET Keep(tx) == ~(t - tx.timestamp > TransactionTimeout) IN SelectSeq(mp, Keep)

----------------------------------------------------------------------------
(* Inputs: what a wallet, a peer or an adversary can put on the wire *)

\* ids of transfers; the id of a coinbase crafted by an adversary; the ids
\* crypto.randomBytes gives an honest miner (drawn afresh)
TxIds == {1, 2, 3}
ForgedIds == {0}
FreshIds == {10, 11, 12}
ForgedCoinbaseId == CHOOSE i \in ForgedIds : TRUE
\* the amount of every transfer put on the wire
Amount == (INITIAL_BLOCK_REWARD \div 5) * 3
\* the timestamp an outsider gives the blocks and chains it crafts
ForgedTime == GenesisTimestamp

Other(k) == IF k = "A" THEN "B" ELSE "A"

Tx(id, sender, recipient, amount, timestamp, isCoinbase) ==
    [id |-> id, sender |-> sender, recipient |-> recipient, amount |-> amount,
     timestamp |-> timestamp, signature |-> NoSignature, isCoinbase |-> isCoinbase]

\* DigitalWallet.createTransaction by the holder of key k
createTransaction(id, k, recipient, amount, t) ==
    Signed(Tx(id, k, recipient, amount, t, FALSE), k)

\* MiningNode.createCoinbaseTransaction
createCoinbaseTransaction(id, k, blockIndex, t) ==
    Signed(Tx(id, Null, k, ExpectedReward(blockIndex), t, TRUE), k)

\* well-formed transfers, signed by their sender
WalletTransactions(t) ==
    {createTransaction(id, "A", "B", Amount, ts) : id \in TxIds, ts \in 0..t}
        \cup {createTransaction(2, "B", "A", Amount, ts) : ts \in 0..t}

\* malformed transfers: unsigned, signed by another key, amount 0, no sender,
\* flagged as coinbase
MalformedTransactions(t) ==
    { Tx(1, "A", "B", Amount, t, FALSE),
      Signed(Tx(1, "A", "B", Amount, t, FALSE), "B"),
      Signed(Tx(1, "A", "B", 0, t, FALSE), "A"),
      Signed(Tx(1, Null, "B", Amount, t, FALSE), "B"),
      Signed(Tx(1, Null, "B", ExpectedReward(1), t, TRUE), "B") }

TransactionInputs(t) == WalletTransactions(t) \cup MalformedTransactions(t)

GoodCoinbase(k, blockIndex) ==
    createCoinbaseTransaction(ForgedCoinbaseId, k, blockIndex, ForgedTime)

\* transaction lists of crafted blocks that the validators may pass
PassingLists(blockIndex) ==
    LET cb == GoodCoinbase("A", blockIndex)
        ab == createTransaction(1, "A", "B", Amount, ForgedTime)
        ba == createTransaction(2, "B", "A", Amount, ForgedTime)
    IN  { <<cb>>,
          \* a coinbase that names a sender
          <<Signed(Tx(ForgedCoinbaseId, "B", "A", ExpectedReward(blockIndex),
                      ForgedTime, TRUE), "A")>>,
          <<cb, ab>>,
          <<cb, ba>>,
          <<ab, cb>> }

\* transaction lists with a defect
FailingLists(blockIndex) ==
    LET cb == GoodCoinbase("A", blockIndex)
        ab == createTransaction(1, "A", "B", Amount, ForgedTime)
    IN  { <<>>,
          <<cb, cb>>,
          <<ab>>,
          \* a coinbase with the reward of the other halving era
          <<Signed(Tx(ForgedCoinbaseId, Null, "A",
                      ExpectedReward(blockIndex + HALVING_INTERVAL), ForgedTime, TRUE), "A")>>,
          \* an unsigned coinbase
          <<Tx(ForgedCoinbaseId, Null, "A", ExpectedReward(blockIndex), ForgedTime, TRUE)>>,
          <<cb, Tx(1, "A", "B", Amount, ForgedTime, FALSE)>>,
          <<cb, Signed(Tx(1, "A", "B", 0, ForgedTime, FALSE), "A")>> }

ForgedHash(difficulty) == [lz |-> difficulty, of |-> <<"forged">>]

NewBlock(index, previousHash, t, txs, miner, reward) ==
    [index |-> index, previousHash |-> previousHash, timestamp |-> t,
     transactions |-> txs, nonce |-> 0, hash |-> [str |-> <<>>],
     miner |-> miner, reward |-> reward]

\* a block mined on top of prev with the given transactions
MinedOn(prev, txs, difficulty) ==
    mineBlock(NewBlock(prev.index + 1, prev.hash, ForgedTime, txs, "A",
                       ExpectedReward(prev.index + 1)), difficulty)

\* a mined block with one coinbase that claims index i on top of prev
MinedAt(i, prev, difficulty) ==
    mineBlock(NewBlock(i, prev.hash, ForgedTime, <<GoodCoinbase("A", i)>>, "A",
                       ExpectedReward(i)), difficulty)

WithForgedHash(prev, difficulty) ==
    [MinedOn(prev, <<GoodCoinbase("A", prev.index + 1)>>, difficulty)
        EXCEPT !.hash = ForgedHash(difficulty)]

\* blocks that differ from a well-formed successor of prev in one field: the
\* index, the previous hash, the hash, the proof of work, the reward
DefectiveBlocks(prev, difficulty) ==
    LET idx == prev.index + 1
        cbs == <<GoodCoinbase("A", idx)>>
        good == MinedOn(prev, cbs, difficulty)
    IN  { MinedAt(prev.index, prev, difficulty),
          MinedAt(prev.index + 2, prev, difficulty),
          MinedAt(HALVING_INTERVAL, prev, difficulty),
          mineBlock(NewBlock(idx, ForgedHash(difficulty), ForgedTime, cbs, "A",
                             ExpectedReward(idx)), difficulty),
          WithForgedHash(prev, difficulty),
          [good EXCEPT !.nonce = 0,
                       !.hash = calculateHash([good EXCEPT !.nonce = 0])],
          mineBlock(NewBlock(idx, prev.hash, ForgedTime, cbs, "A", 0), difficulty),
          \* the reward of the other halving era, in the coinbase and in the block
          mineBlock(NewBlock(idx, prev.hash, ForgedTime,
                             <<GoodCoinbase("A", idx + HALVING_INTERVAL)>>, "A",
                             ExpectedReward(idx + HALVING_INTERVAL)), difficulty) }

BlockInputs(prev, difficulty) ==
    {MinedOn(prev, txs, difficulty) :
        txs \in PassingLists(prev.index + 1) \cup FailingLists(prev.index + 1)}
        \cup DefectiveBlocks(prev, difficulty)

\* the blocks crafted chains of several blocks are made of
ChainBlocks(prev, difficulty) ==
    LET cb == GoodCoinbase("A", prev.index + 1)
    IN  { MinedOn(prev, <<cb>>, difficulty),
          MinedOn(prev, <<cb, createTransaction(2, "B", "A", Amount, ForgedTime)>>,
                  difficulty),
          WithForgedHash(prev, difficulty),
          MinedAt(HALVING_INTERVAL, prev, difficulty) }

\* the blocks another miner sends: one it mined, one that carries a payment
\* from B, and one whose reward goes to B and that carries the payment of A's
\* wallet
PeerBlocks(prev, difficulty) ==
    LET cb == GoodCoinbase("A", prev.index + 1)
    IN  { MinedOn(prev, <<cb>>, difficulty),
          MinedOn(prev, <<cb, createTransaction(2, "B", "A", Amount, ForgedTime)>>,
                  difficulty),
          MinedOn(prev, <<GoodCoinbase("B", prev.index + 1),
                          createTransaction(1, "A", "B", Amount, ForgedTime)>>,
                  difficulty) }

\* chains a CHAIN_RESPONSE frame can carry to a node whose chain is own
ChainInputs(own, difficulty) ==
    LET g == own[1]
        other == createGenesisBlock(<<INITIAL_DIFFICULTY>>)
    IN  { <<>>, <<g>>, <<other>>,
          <<other, MinedOn(other, <<GoodCoinbase("A", 1)>>, difficulty)>> }
        \cup { <<g, b>> : b \in BlockInputs(g, difficulty) }
        \cup UNION { { <<g, b1, b2>> : b2 \in ChainBlocks(b1, difficulty) } :
                       b1 \in ChainBlocks(g, difficulty) }
        \cup (IF Len(own) < MaxChain
              THEN { Append(own, b) : b \in ChainBlocks(getLastBlock(own), difficulty) }
              ELSE {})

----------------------------------------------------------------------------
(* State *)

Pairs == {p \in Nodes \X Nodes : p[1] # p[2]}
Links == {p \in Managers \X Managers : p[1] # p[2]}

Frame(type, payload, sender) == [type |-> type, payload |-> payload, sender |-> sender]

\* the sender id of a frame that comes from a socket that is not a modelled node
Outsider == "X"

\* what the last step did: the operation, the node, whether it succeeded
\* (a block appended, a chain adopted, a transaction admitted), whether
\* replaceChain threw and the height its error names, the length of the chain
\* received, the argument (an admitted transaction, an address), the value
\* returned (for cleanup, the number of entries it deleted), whether the
\* step repeats the addTransaction call of the step before, the sender of the
\* frame handled, the ids the step sent a BLOCK or TRANSACTION frame to, and
\* whether the step left an error that nothing catches (an uncaught exception
\* or a rejected promise without a handler)
Result(op, n) ==
    [op |-> op, node |-> n, ok |-> FALSE, threw |-> FALSE, height |-> 0,
     len |-> 0, arg |-> <<>>, value |-> 0, again |-> FALSE,
     from |-> Null, to |-> {}, unhandled |-> FALSE]

\* the managers after construction, those of wallets constructed with a wallet
InitManagers(wallets) ==
    /\ isWalletNode = [n \in Managers |-> n \in wallets]
    /\ chain = [n \in Managers |-> ConstructedChain(Difficulty(n))]
    /\ balances = [n \in Managers |-> EmptyMap]
    /\ confirmations = [n \in Managers |-> EmptyMap]
    /\ mempool = [n \in Managers |-> <<>>]
    /\ peers = [n \in Managers |-> {}]
    /\ knownPeers = [n \in Managers |-> {}]
    /\ walletConnections = [n \in Managers |-> {}]
    /\ net = [p \in Links |-> <<>>]
    /\ relayed = <<>>
    /\ now = 0
    /\ last = Result("init", "N1")

InitNodes == InitManagers({})

TransactionsOfChain(c) ==
    UNION { {c[i].transactions[k] : k \in 1..Len(c[i].transactions)} : i \in 1..Len(c) }

FramePayloadIds(f) ==
    IF f.type = "BLOCK" THEN IdsOf(f.payload[1].transactions)
    ELSE IF f.type = "CHAIN_RESPONSE" THEN {tx.id : tx \in TransactionsOfChain(f.payload)}
    ELSE IF f.type = "TRANSACTION" THEN {f.payload[1].id}
    ELSE {}

UsedIds ==
    UNION { {tx.id : tx \in TransactionsOfChain(chain[n])} \cup IdsOf(mempool[n])
            \cup DOMAIN confirmations[n] : n \in Managers }
    \cup UNION { UNION { FramePayloadIds(net[p][k]) : k \in 1..Len(net[p]) } : p \in Links }

\* crypto.randomBytes(32): an id that occurs nowhere
HasFreshId == FreshIds \ UsedIds # {}
FreshId == CHOOSE i \in FreshIds \ UsedIds : \A j \in FreshIds \ UsedIds : i <= j

----------------------------------------------------------------------------
(* Transport *)

\* an observed node's broadcast of a frame it received, to at least one peer
Relay(n, type, key, to) ==
    IF n \in DOMAIN relayed /\ to # {}
    THEN [relayed EXCEPT ![n][type] = Append(@, key)]
    ELSE relayed

\* sendToPeer(peerId, frame): sent when peerId is in the peer table
SendTo(nt, n, peerId, frame) ==
    IF peerId \in peers[n] /\ peerId \in Managers
    THEN [nt EXCEPT ![<<n, peerId>>] = Append(@, frame)]
    ELSE nt

\* NetworkManager.getPeers(): the peer table without the wallet connections
getPeers(n) == {peerId \in peers[n] : peerId \notin walletConnections[n]}

\* the peers broadcastNewBlock and broadcastTransaction send to
RecipientsWithSender(n, originalSender) == getPeers(n)

Recipients(n, originalSender) ==
    {peerId \in getPeers(n) :
        peerId # originalSender /\ peerId \notin walletConnections[n]}

\* the manager's getPeers() without originalSender, each sent the frame (a
\* frame sent to a wallet's socket leaves the modelled links)
SendToAllBut(nt, n, frame, originalSender) ==
    [p \in Links |->
        IF p[1] = n /\ p[2] \in Recipients(n, originalSender)
        THEN Append(nt[p], frame)
        ELSE nt[p]]

Fits(nt) == \A p \in Links : Len(nt[p]) <= MaxInFlight

----------------------------------------------------------------------------
(* The mining loop of a MiningNode *)

\* a MiningNode as its constructor leaves it, its P2PNode not started; a mining
\* wallet is "wallet" when it has a current identity and "wallet without
\* identity" when it has none
ConstructedMiner ==
    [isMining |-> FALSE, miningInterval |-> Null, miningWallet |-> Null,
     isActive |-> FALSE, scheduled |-> 0]

\* startMining(): nothing when mining or without a wallet, else setInterval
startMining(m) ==
    IF m.isMining \/ m.miningWallet = Null THEN m
    ELSE [m EXCEPT !.isMining = TRUE, !.miningInterval = "interval",
                   !.scheduled = @ + 1]

\* the mutation of stopMining that clears the flag and the field and leaves the
\* interval scheduled
stopMiningFlagOnly(m) == [m EXCEPT !.miningInterval = Null, !.isMining = FALSE]

\* stopMining(): clearInterval of the interval held, if any
stopMining(m) ==
    [m EXCEPT !.scheduled = IF m.miningInterval # Null THEN @ - 1 ELSE @,
              !.miningInterval = Null,
              !.isMining = FALSE]

\* a node that runs: started, and mining with its wallet when it is a MiningNode
InitMining ==
    mining = [n \in Managers |->
                 IF n \in miners
                 THEN startMining([ConstructedMiner EXCEPT !.isActive = TRUE,
                                                          !.miningWallet = "wallet"])
                 ELSE [ConstructedMiner EXCEPT !.isActive = TRUE]]

----------------------------------------------------------------------------
(* Handlers.  Each takes the net nt the frame was taken from. *)

\* NetworkManager.handleNewBlock (a plain manager)
ManagerHandleNewBlock(n, block, sender, nt) ==
    IF isValidNewBlock(chain[n], Difficulty(n), block)
    THEN /\ chain' = [chain EXCEPT ![n] = Append(@, block)]
         /\ net' = SendToAllBut(nt, n, Frame("BLOCK", <<block>>, n), sender)
         /\ relayed' = Relay(n, "BLOCK", block.hash, Recipients(n, sender))
         /\ last' = [Result("handleNewBlock", n) EXCEPT
                        !.ok = TRUE, !.arg = <<block>>, !.from = sender,
                        !.to = Recipients(n, sender)]
    ELSE /\ chain' = chain
         /\ net' = nt
         /\ relayed' = relayed
         /\ last' = [Result("handleNewBlock", n) EXCEPT
                        !.arg = <<block>>, !.from = sender]

\* MiningNode.handleNewBlock (the override)
MinerHandleNewBlock(n, block, sender, nt) ==
    IF block.index = Len(chain[n]) /\ isValidNewBlock(chain[n], Difficulty(n), block)
    THEN /\ chain' = [chain EXCEPT ![n] = Append(@, block)]
         /\ LET stopped == IF mining[n].isMining THEN stopMining(mining[n])
                           ELSE mining[n]
            IN  mining' = [mining EXCEPT ![n] =
                              IF stopped.miningWallet # Null THEN startMining(stopped)
                              ELSE stopped]
         /\ net' = nt
         /\ last' = [Result("handleNewBlock", n) EXCEPT
                        !.ok = TRUE, !.arg = <<block>>, !.from = sender]
    ELSE /\ chain' = chain
         /\ mining' = mining
         /\ net' = nt
         /\ last' = [Result("handleNewBlock", n) EXCEPT
                        !.arg = <<block>>, !.from = sender]

HandleNewBlock(n, block, sender, nt) ==
    /\ Len(chain[n]) < MaxChain
    /\ IF n \in miners
       THEN MinerHandleNewBlock(n, block, sender, nt) /\ relayed' = relayed
       ELSE ManagerHandleNewBlock(n, block, sender, nt) /\ mining' = mining
    /\ UNCHANGED <<balances, confirmations, mempool, peers, knownPeers, walletConnections, miners, now, isWalletNode>>

\* handleChainResponse: replaceChain's error is caught and logged
HandleChainResponse(n, receivedChain, nt) ==
    /\ net' = nt
    /\ IF isValidChain(chain[n], Difficulty(n), receivedChain)
          /\ shouldReplaceChain(chain[n], receivedChain)
       THEN LET r == replaceChain([chain |-> chain[n], balances |-> balances[n],
                                   confirmations |-> confirmations[n]], receivedChain)
            IN  /\ chain' = [chain EXCEPT ![n] = r.chain]
                /\ balances' = [balances EXCEPT ![n] = r.balances]
                /\ confirmations' = [confirmations EXCEPT ![n] = r.confirmations]
                /\ last' = [Result("handleChainResponse", n) EXCEPT
                               !.ok = ~r.threw, !.threw = r.threw,
                               !.height = r.height, !.len = Len(receivedChain)]
       ELSE /\ UNCHANGED <<chain, balances, confirmations>>
            /\ last' = [Result("handleChainResponse", n) EXCEPT
                           !.len = Len(receivedChain)]
    /\ UNCHANGED <<mempool, peers, knownPeers, walletConnections, miners, now, isWalletNode, mining, relayed>>

\* handleChainRequest
HandleChainRequest(n, requesterId, nt) ==
    /\ net' = SendTo(nt, n, requesterId, Frame("CHAIN_RESPONSE", chain[n], n))
    /\ last' = Result("handleChainRequest", n)
    /\ UNCHANGED <<chain, balances, confirmations, mempool, peers, knownPeers, walletConnections, miners, now, isWalletNode, mining, relayed>>

\* handleNewTransaction, with Mempool.addTransaction
HandleNewTransaction(n, tx, sender, nt) ==
    LET again == /\ last.op = "addTransaction" /\ last.node = n
                 /\ last.ok /\ last.arg = <<tx>>
    IN
    /\ IF addTransactionAdmits(mempool[n], chain[n], tx, now)
       THEN /\ mempool' = [mempool EXCEPT ![n] = MempoolSet(@, tx)]
            /\ net' = SendToAllBut(nt, n, Frame("TRANSACTION", <<tx>>, n), sender)
            /\ relayed' = Relay(n, "TRANSACTION", tx.id, Recipients(n, sender))
            /\ last' = [Result("addTransaction", n) EXCEPT
                           !.ok = TRUE, !.arg = <<tx>>, !.again = again,
                           !.from = sender, !.to = Recipients(n, sender)]
       ELSE /\ mempool' = mempool
            /\ net' = nt
            /\ relayed' = relayed
            /\ last' = [Result("addTransaction", n) EXCEPT
                           !.again = again, !.from = sender]
    /\ IF addTransactionCachesBalance(mempool[n], tx, now)
       THEN balances' = [balances EXCEPT ![n] =
                MapSet(@, tx.sender, getAccountBalance(chain[n], tx.sender))]
       ELSE balances' = balances
    /\ UNCHANGED <<chain, confirmations, peers, knownPeers, walletConnections, miners, now, isWalletNode, mining>>

\* the mutation of isWalletManager that takes no manager for a wallet's
isWalletManagerNever(n) == FALSE

\* this.isWalletNode of the manager n
isWalletManager(n) == isWalletNode[n]

\* the address a P2PNode puts in its HANDSHAKE: ws://localhost:<its port>, the
\* port being 0 for a manager that connectToNode started
Wallet == "W"

Port(id) ==
    IF id = Wallet \/ (id \in Managers /\ isWalletNode[id]) THEN 0
    ELSE IF id = "N1" THEN 3001 ELSE IF id = "N3" THEN 3003 ELSE 3002

Address(id) == [host |-> "localhost", port |-> Port(id)]

\* address.includes('localhost:0'): the decimal port follows the host, and a
\* port is written without leading zeros
includesSentinel(address) == address.host = "localhost" /\ address.port = 0

\* P2PNode.broadcastMessage: to every socket of the peer table
BroadcastMessage(nt, n, table, frame) ==
    [p \in Links |->
        IF p[1] = n /\ p[2] \in table THEN Append(nt[p], frame) ELSE nt[p]]

\* P2PNode.handleConnection on a HANDSHAKE frame, and the manager's peerConnected
\* listener: the peer enters the table; a wallet is recorded as one, any other
\* peer is made known and announced when new, and asked for its chain
HandleHandshake(n, peerId, address, nt) ==
    /\ peers' = [peers EXCEPT ![n] = @ \cup {peerId}]
    /\ IF includesSentinel(address)
       THEN /\ walletConnections' = [walletConnections EXCEPT ![n] = @ \cup {peerId}]
            /\ knownPeers' = knownPeers
            /\ net' = nt
       ELSE /\ walletConnections' = walletConnections
            /\ knownPeers' = IF isWalletManager(n) THEN knownPeers
                             ELSE [knownPeers EXCEPT ![n] = @ \cup {peerId}]
            /\ LET announced ==
                       IF ~isWalletManager(n) /\ peerId \notin knownPeers[n]
                       THEN BroadcastMessage(nt, n, peers[n] \cup {peerId},
                                Frame("PEER_DISCOVERY",
                                      <<[id |-> peerId, address |-> address]>>, n))
                       ELSE nt
               IN  net' = IF peerId \in Managers
                          THEN [announced EXCEPT ![<<n, peerId>>] =
                                   Append(@, Frame("CHAIN_REQUEST", <<>>, n))]
                          ELSE announced
    /\ last' = [Result("peerConnected", n) EXCEPT !.from = peerId]
    /\ UNCHANGED <<chain, balances, confirmations, mempool, miners, now, isWalletNode, mining, relayed>>

\* connectToPeer(address): nothing when a peer of the table has the address,
\* else a socket opens to the node listening there and each side sends its
\* HANDSHAKE; a failure to connect is emitted, not thrown
connectToPeer(nt, n, address) ==
    IF \E m \in Managers : m # n /\ m \notin peers[n] /\ Address(m) = address
    THEN LET m == CHOOSE m \in Managers : m # n /\ Address(m) = address
         IN  [nt EXCEPT ![<<n, m>>] = Append(@, Frame("HANDSHAKE", <<Address(n)>>, n)),
                        ![<<m, n>>] = Append(@, Frame("HANDSHAKE", <<Address(m)>>, m))]
    ELSE nt

\* the value of peer.id when the entry has no id
UndefinedId == "undefined"

\* handlePeerDiscovery, which returns at once in a wallet's manager, for a
\* payload of one peer, an entry that may lack its id or its address.  The callback of
\* forEach is async: peer.address.includes on a missing address, evaluated
\* when the two tests before it pass, throws before the try and rejects a
\* promise that nothing handles
HandlePeerDiscovery(n, peer, nt) ==
    LET id == IF "id" \in DOMAIN peer THEN peer.id ELSE UndefinedId
        reached == ~isWalletManager(n) /\ id \notin knownPeers[n] /\ id # n
        rejects == reached /\ "address" \notin DOMAIN peer
    IN  /\ IF ~rejects /\ reached /\ ~includesSentinel(peer.address)
           THEN /\ knownPeers' = [knownPeers EXCEPT ![n] = @ \cup {id}]
                /\ net' = connectToPeer(nt, n, peer.address)
           ELSE /\ knownPeers' = knownPeers
                /\ net' = nt
        /\ last' = [Result("handlePeerDiscovery", n) EXCEPT
                       !.arg = <<peer>>, !.unhandled = rejects]
        /\ UNCHANGED <<chain, balances, confirmations, mempool, peers, walletConnections,
                       miners, now, isWalletNode, mining, relayed>>

----------------------------------------------------------------------------
(* Actions *)

\* time passes
Tick ==
    /\ now < MaxTime
    /\ now' = now + 1
    /\ last' = Result("tick", "N1")
    /\ UNCHANGED <<chain, balances, confirmations, mempool, peers, knownPeers, walletConnections, net, miners, isWalletNode, mining, relayed>>

\* the mutation of Connect that enters the remote node into the peer table and
\* fires peerConnected when the socket opens
ConnectEntersTable(a, b) ==
    /\ b \notin peers[a] /\ a \notin peers[b]
    /\ net[<<a, b>>] = <<>> /\ net[<<b, a>>] = <<>>
    /\ net' = [net EXCEPT ![<<a, b>>] = <<Frame("HANDSHAKE", <<Address(a)>>, a)>>,
                          ![<<b, a>>] = <<Frame("HANDSHAKE", <<Address(b)>>, b)>>]
    /\ peers' = [peers EXCEPT ![a] = @ \cup {b}]
    /\ last' = Result("connect", a)
    /\ UNCHANGED <<chain, balances, confirmations, mempool, knownPeers, walletConnections, miners, now, isWalletNode, mining, relayed>>

\* a socket opens between a and b: each side sends its HANDSHAKE
Connect(a, b) ==
    /\ b \notin peers[a] /\ a \notin peers[b]
    /\ net[<<a, b>>] = <<>> /\ net[<<b, a>>] = <<>>
    /\ net' = [net EXCEPT ![<<a, b>>] = <<Frame("HANDSHAKE", <<Address(a)>>, a)>>,
                          ![<<b, a>>] = <<Frame("HANDSHAKE", <<Address(b)>>, b)>>]
    /\ last' = Result("connect", a)
    /\ UNCHANGED <<chain, balances, confirmations, mempool, peers, knownPeers, walletConnections, miners, now, isWalletNode, mining, relayed>>

\* the frame at the head of the link from a to b is handled by b
Deliver(a, b) ==
    /\ net[<<a, b>>] # <<>>
    /\ LET f == Head(net[<<a, b>>])
           nt == [net EXCEPT ![<<a, b>>] = Tail(@)]
       IN  CASE f.type = "HANDSHAKE" -> HandleHandshake(b, f.sender, f.payload[1], nt)
             [] f.type = "PEER_DISCOVERY" -> HandlePeerDiscovery(b, f.payload[1], nt)
             [] f.type = "CHAIN_REQUEST" -> HandleChainRequest(b, f.sender, nt)
             [] f.type = "CHAIN_RESPONSE" -> HandleChainResponse(b, f.payload, nt)
             [] f.type = "BLOCK" -> HandleNewBlock(b, f.payload[1], f.sender, nt)
             [] f.type = "TRANSACTION" -> HandleNewTransaction(b, f.payload[1], f.sender, nt)
    /\ Fits(net')

\* a wallet's manager connects to n (connectToNode) and n handles its HANDSHAKE
WalletConnect(n) ==
    /\ Wallet \notin peers[n]
    /\ HandleHandshake(n, Wallet, Address(Wallet), net)

\* the wallet's socket closes: P2PNode drops the peer and the manager's
\* peerDisconnected listener runs
WalletDisconnect(n) ==
    /\ Wallet \in peers[n]
    /\ peers' = [peers EXCEPT ![n] = @ \ {Wallet}]
    /\ IF Wallet \in walletConnections[n]
       THEN /\ walletConnections' = [walletConnections EXCEPT ![n] = @ \ {Wallet}]
            /\ knownPeers' = knownPeers
       ELSE /\ walletConnections' = walletConnections
            /\ knownPeers' = [knownPeers EXCEPT ![n] = @ \ {Wallet}]
    /\ last' = [Result("peerDisconnected", n) EXCEPT !.from = Wallet]
    /\ UNCHANGED <<chain, balances, confirmations, mempool, net, miners, now, isWalletNode, mining, relayed>>

\* a PEER_DISCOVERY frame from an outsider's socket, naming the wallet's id or
\* the outsider's with an address that is not the sentinel, or the wallet as it is
InjectPeerDiscovery(n) ==
    /\ \E peer \in {[id |-> Wallet, address |-> Address(Wallet)],
                     [id |-> Wallet, address |-> [host |-> "localhost", port |-> 4000]],
                     [id |-> Outsider, address |-> [host |-> "localhost", port |-> 4000]]} :
           HandlePeerDiscovery(n, peer, net)
    /\ Fits(net')

\* a PEER_DISCOVERY frame that names another node at the address it listens on
InjectNodeDiscovery(n) ==
    /\ \E m \in Nodes \ {n} :
           HandlePeerDiscovery(n, [id |-> m, address |-> Address(m)], net)
    /\ Fits(net')

\* connectToNode(nodeAddress) of the manager w, for the address of n: it throws
\* in a manager without a wallet, else the P2PNode starts on port 0 and dials n
connectToNode(w, n) ==
    /\ isWalletManager(w)
    /\ Connect(w, n)

\* a frame from an outsider's socket that is not what its type promises:
\* data that JSON.parse rejects, a type the switch has no case for, a BLOCK
\* whose payload has no block and a CHAIN_RESPONSE whose payload has no chain
\* (each a TypeError raised under the try of handleConnection or of the
\* handler, which logs it), a CHAIN_RESPONSE with an empty list, and a
\* PEER_DISCOVERY whose entry has no id or no address
InjectMalformed(n) ==
    \/ /\ \E kind \in {"unparseable", "unknown type", "no block", "no chain"} :
              last' = [Result("malformed", n) EXCEPT !.arg = <<kind>>]
       /\ UNCHANGED <<chain, balances, confirmations, mempool, peers, knownPeers,
                      walletConnections, net, miners, now, isWalletNode, mining, relayed>>
    \/ HandleChainResponse(n, <<>>, net)
    \/ /\ \E peer \in {[address |-> [host |-> "localhost", port |-> 4000]],
                        [id |-> Outsider]} :
              HandlePeerDiscovery(n, peer, net)
       /\ Fits(net')

\* a BLOCK frame from an outsider's socket
InjectBlock(n) ==
    /\ \E block \in BlockInputs(getLastBlock(chain[n]), Difficulty(n)) :
           HandleNewBlock(n, block, Outsider, net)
    /\ Fits(net')

\* a BLOCK frame from an outsider's socket that carries a defective block
InjectDefectiveBlock(n) ==
    /\ \E block \in DefectiveBlocks(getLastBlock(chain[n]), Difficulty(n)) :
           HandleNewBlock(n, block, Outsider, net)
    /\ Fits(net')

\* a CHAIN_RESPONSE frame from an outsider's socket
InjectChainResponse(n) ==
    \E c \in ChainInputs(chain[n], Difficulty(n)) : HandleChainResponse(n, c, net)

\* a TRANSACTION frame from a wallet's or an outsider's socket
InjectTransaction(n) ==
    /\ \E tx \in TransactionInputs(now) : HandleNewTransaction(n, tx, Outsider, net)
    /\ Fits(net')

\* a TRANSACTION frame from the wallet of A: its payment to B, made now
SubmitTransaction(n) ==
    /\ HandleNewTransaction(n, createTransaction(1, "A", Other("A"), Amount, now),
                            Outsider, net)
    /\ Fits(net')

\* a BLOCK frame from the socket of a miner that is not modelled
PeerBlock(n) ==
    /\ \E block \in PeerBlocks(getLastBlock(chain[n]), Difficulty(n)) :
           HandleNewBlock(n, block, Outsider, net)
    /\ Fits(net')

\* DigitalWallet.getTransactionStatus over a Blockchain's confirmations:
\* P2PNode.getPendingTransactions() returns no transaction, so an id without a
\* confirmation is REJECTED
getTransactionStatus(confs, transactionId) ==
    IF transactionId \in DOMAIN confs THEN confs[transactionId].status ELSE "REJECTED"

\* Blockchain.validateBlock: find() yields the first coinbase, if any
validateBlock(block, previousBlock) ==
    LET coinbaseTransactions == SelectSeq(block.transactions, IsCoinbase)
        regularTransactions == SelectSeq(block.transactions, IsRegular)
    IN  /\ block.previousHash = previousBlock.hash
        /\ Len(coinbaseTransactions) >= 1
        /\ validateCoinbaseTransaction(coinbaseTransactions[1], block.index)
        /\ \A k \in 1..Len(regularTransactions) :
               validateTransaction(regularTransactions[k])

\* Blockchain.isValid()
isValid(c) == \A i \in 2..Len(c) : validateBlock(c[i], c[i - 1])

\* updateBalances(transaction), the chain c holding the block already: each
\* side's balance is recomputed over the chain, then moved by the amount
updateBalances(bals, c, tx) ==
    LET debited ==
            IF ~tx.isCoinbase /\ ~(tx.sender = Null \/ tx.sender = "")
            THEN MapSet(bals, tx.sender, getAccountBalance(c, tx.sender) - tx.amount)
            ELSE bals
    IN  MapSet(debited, tx.recipient, getAccountBalance(c, tx.recipient) + tx.amount)

\* updateAllConfirmations(currentBlockHeight); the status it sets is the one
\* every entry has
updateAllConfirmations(confs, currentBlockHeight) ==
    [id \in DOMAIN confs |->
        [confs[id] EXCEPT !.confirmations = currentBlockHeight - confs[id].blockHeight + 1]]

\* processBlockTransactions(block), from its k-th transaction on
RECURSIVE processBlockTransactions(_, _, _)
processBlockTransactions(bc, block, k) ==
    IF k > Len(block.transactions)
    THEN [bc EXCEPT !.confirmations = updateAllConfirmations(@, block.index)]
    ELSE processBlockTransactions(
             [bc EXCEPT !.confirmations =
                            updateTransactionConfirmation(@, block.transactions[k].id,
                                                          block.index),
                        !.balances = updateBalances(@, bc.chain, block.transactions[k])],
             block, k + 1)

\* Blockchain.createBlock(data) at time t on a Blockchain bc = [chain,
\* balances, confirmations]
createBlock(bc, data, difficulty, t) ==
    LET previousBlock == getLastBlock(bc.chain)
        newBlock == mineBlock(NewBlock(previousBlock.index + 1, previousBlock.hash, t,
                                       data.transactions, data.miner, data.reward),
                              difficulty)
    IN  processBlockTransactions([bc EXCEPT !.chain = Append(@, newBlock)], newBlock, 1)

\* Blockchain.createBlock(data), called on the node's blockchain with a list of
\* transactions that is well formed or has a defect
CreateBlock(n) ==
    /\ Len(chain[n]) < MaxChain
    /\ \E txs \in PassingLists(Len(chain[n])) \cup FailingLists(Len(chain[n])) :
          LET r == createBlock([chain |-> chain[n], balances |-> balances[n],
                                confirmations |-> confirmations[n]],
                               [transactions |-> txs, miner |-> "A",
                                reward |-> ExpectedReward(Len(chain[n]))],
                               Difficulty(n), now)
          IN  /\ chain' = [chain EXCEPT ![n] = r.chain]
              /\ balances' = [balances EXCEPT ![n] = r.balances]
              /\ confirmations' = [confirmations EXCEPT ![n] = r.confirmations]
              /\ last' = [Result("createBlock", n) EXCEPT
                             !.ok = isValid(chain[n]),
                             !.arg = <<getLastBlock(r.chain)>>]
    /\ UNCHANGED <<mempool, peers, knownPeers, walletConnections, net, miners, now, isWalletNode, mining, relayed>>

\* Blockchain.replaceChain(newChain), called on the node's blockchain
ReplaceChain(n) ==
    /\ \E c \in ChainInputs(chain[n], Difficulty(n)) :
          LET r == replaceChain([chain |-> chain[n], balances |-> balances[n],
                                 confirmations |-> confirmations[n]], c)
          IN  /\ chain' = [chain EXCEPT ![n] = r.chain]
              /\ balances' = [balances EXCEPT ![n] = r.balances]
              /\ confirmations' = [confirmations EXCEPT ![n] = r.confirmations]
              /\ last' = [Result("replaceChain", n) EXCEPT
                             !.ok = ~r.threw, !.threw = r.threw,
                             !.height = r.height, !.len = Len(c)]
    /\ UNCHANGED <<mempool, peers, knownPeers, walletConnections, net, miners, now, isWalletNode, mining, relayed>>

\* the body of the MiningNode's interval callback
MiningTick(n) ==
    /\ n \in miners
    /\ mining[n].scheduled > 0
    /\ IF mining[n].miningWallet = "wallet"
       THEN /\ Len(chain[n]) < MaxChain
            /\ HasFreshId
            /\ LET lastBlock == getLastBlock(chain[n])
                   blockIndex == lastBlock.index + 1
                   coinbaseTransaction ==
                       createCoinbaseTransaction(FreshId, MiningKey(n), blockIndex, now)
                   pendingTransactions ==
                       getTransactions(mempool[n], MAX_TRANSACTIONS_PER_BLOCK - 1)
                   newBlock ==
                       mineBlock(NewBlock(blockIndex, lastBlock.hash, now,
                                          <<coinbaseTransaction>> \o pendingTransactions,
                                          MiningKey(n), coinbaseTransaction.amount),
                                 Difficulty(n))
               IN  IF isValidNewBlock(chain[n], Difficulty(n), newBlock)
                   THEN /\ chain' = [chain EXCEPT ![n] = Append(@, newBlock)]
                        /\ mempool' = [mempool EXCEPT ![n] =
                                           removeTransactions(@, pendingTransactions)]
                        /\ net' = SendToAllBut(net, n, Frame("BLOCK", <<newBlock>>, n),
                                               Outsider)
                        /\ last' = [Result("mine", n) EXCEPT
                                       !.ok = TRUE, !.arg = <<newBlock>>,
                                       !.value = Len(pendingTransactions),
                                       !.to = Recipients(n, Outsider)]
                   ELSE /\ UNCHANGED <<chain, mempool, net>>
                        /\ last' = Result("mine", n)
            /\ Fits(net')
            /\ mining' = mining
       ELSE \* createCoinbaseTransaction throws; the catch stops the mining
            /\ mining' = [mining EXCEPT ![n] = stopMining(@)]
            /\ last' = [Result("mine", n) EXCEPT !.threw = TRUE]
            /\ UNCHANGED <<chain, mempool, net>>
    /\ UNCHANGED <<balances, confirmations, peers, knownPeers, walletConnections, miners, now, isWalletNode, relayed>>

\* MiningNode.start(port): P2PNode.start throws when the node is active, else
\* the node is active and mines when it has a wallet
Start(n) ==
    /\ n \in miners
    /\ IF mining[n].isActive
       THEN /\ mining' = mining
            /\ last' = [Result("start", n) EXCEPT !.threw = TRUE]
       ELSE /\ LET active == [mining[n] EXCEPT !.isActive = TRUE]
               IN  mining' = [mining EXCEPT ![n] =
                                 IF active.miningWallet # Null THEN startMining(active)
                                 ELSE active]
            /\ last' = Result("start", n)
    /\ UNCHANGED <<chain, balances, confirmations, mempool, peers, knownPeers, walletConnections, net, miners, now, isWalletNode, relayed>>

\* connectMiningWallet(wallet)
ConnectMiningWallet(n) ==
    /\ n \in miners
    /\ \E wallet \in {"wallet", "wallet without identity"} :
           mining' = [mining EXCEPT ![n] = startMining([@ EXCEPT !.miningWallet = wallet])]
    /\ last' = Result("connectMiningWallet", n)
    /\ UNCHANGED <<chain, balances, confirmations, mempool, peers, knownPeers, walletConnections, net, miners, now, isWalletNode, relayed>>

\* startMining(), called from outside
StartMining(n) ==
    /\ n \in miners
    /\ mining' = [mining EXCEPT ![n] = startMining(@)]
    /\ last' = Result("startMining", n)
    /\ UNCHANGED <<chain, balances, confirmations, mempool, peers, knownPeers, walletConnections, net, miners, now, isWalletNode, relayed>>

\* stopMining(), called from outside
StopMining(n) ==
    /\ n \in miners
    /\ mining' = [mining EXCEPT ![n] = stopMining(@)]
    /\ last' = Result("stopMining", n)
    /\ UNCHANGED <<chain, balances, confirmations, mempool, peers, knownPeers, walletConnections, net, miners, now, isWalletNode, relayed>>

\* disconnectWallet()
DisconnectWallet(n) ==
    /\ n \in miners
    /\ mining' = [mining EXCEPT ![n] = [stopMining(@) EXCEPT !.miningWallet = Null]]
    /\ last' = Result("disconnectWallet", n)
    /\ UNCHANGED <<chain, balances, confirmations, mempool, peers, knownPeers, walletConnections, net, miners, now, isWalletNode, relayed>>

\* MiningNode.stop(), with NetworkManager.stop and P2PNode.stop
Stop(n) ==
    /\ n \in miners
    /\ mining' = [mining EXCEPT ![n] =
                      [stopMining(@) EXCEPT !.miningWallet = Null, !.isActive = FALSE]]
    /\ peers' = [peers EXCEPT ![n] = {}]
    /\ knownPeers' = [knownPeers EXCEPT ![n] = {}]
    /\ walletConnections' = [walletConnections EXCEPT ![n] = {}]
    /\ last' = Result("stop", n)
    /\ UNCHANGED <<chain, balances, confirmations, mempool, net, miners, now, isWalletNode, relayed>>

\* Blockchain.getAccountBalance(address), as check-balance calls it
GetAccountBalance(n, address) ==
    /\ balances' = [balances EXCEPT ![n] =
           MapSet(@, address, getAccountBalance(chain[n], address))]
    /\ last' = [Result("getAccountBalance", n) EXCEPT
                   !.arg = <<address>>, !.value = getAccountBalance(chain[n], address)]
    /\ UNCHANGED <<chain, confirmations, mempool, peers, knownPeers, walletConnections, net, miners, now, isWalletNode, mining, relayed>>

\* Mempool.cleanup()
Cleanup(n) ==
    /\ mempool' = [mempool EXCEPT ![n] = cleanup(@, now)]
    /\ last' = [Result("cleanup", n) EXCEPT
                   !.value = Len(mempool[n]) - Len(cleanup(mempool[n], now))]
    /\ UNCHANGED <<chain, balances, confirmations, peers, knownPeers, walletConnections, net, miners, now, isWalletNode, mining, relayed>>

\* Mempool.clear()
Clear(n) ==
    /\ mempool' = [mempool EXCEPT ![n] = <<>>]
    /\ last' = Result("clear", n)
    /\ UNCHANGED <<chain, balances, confirmations, peers, knownPeers, walletConnections, net, miners, now, isWalletNode, mining, relayed>>

\* Mempool.removeTransaction(id)
RemoveTransaction(n, id) ==
    /\ mempool' = [mempool EXCEPT ![n] = removeTransaction(@, id)]
    /\ last' = Result("removeTransaction", n)
    /\ UNCHANGED <<chain, balances, confirmations, peers, knownPeers, walletConnections, net, miners, now, isWalletNode, mining, relayed>>

----------------------------------------------------------------------------
(* Spec: one node, a MiningNode or a plain manager, with a wallet's and an
   outsider's socket, at one instant *)

Init ==
    /\ InitNodes
    /\ miners \in SUBSET {"N1"}
    /\ InitMining

Next ==
    \/ InjectBlock("N1")
    \/ InjectChainResponse("N1")
    \/ SubmitTransaction("N1")
    \/ MiningTick("N1")
    \/ \E a \in Keys : GetAccountBalance("N1", a)

Spec == Init /\ [][Next]_vars

----------------------------------------------------------------------------
(* SpecMempool: one MiningNode, its wallets and its mempool, as time passes *)

InitMempool ==
    /\ InitNodes
    /\ miners = {"N1"}
    /\ InitMining

NextMempool ==
    \/ Tick
    \/ InjectTransaction("N1")
    \/ MiningTick("N1")
    \/ Cleanup("N1")
    \/ Clear("N1")
    \/ \E id \in TxIds : RemoveTransaction("N1", id)

SpecMempool == InitMempool /\ [][NextMempool]_vars

----------------------------------------------------------------------------
(* SpecNet: the MiningNode N1 and the plain manager N2, which connect, gossip
   and synchronise *)

InitNet ==
    /\ InitNodes
    /\ miners = {"N1"}
    /\ InitMining

NextNet ==
    \/ \E p \in Pairs : Connect(p[1], p[2])
    \/ \E p \in Pairs : Deliver(p[1], p[2])
    \/ MiningTick("N1")
    \/ SubmitTransaction("N1")
    \/ \E n \in Nodes : PeerBlock(n)

SpecNet == InitNet /\ [][NextNet]_vars

----------------------------------------------------------------------------
(* SpecPeers: the MiningNode N1 and the plain manager N2, with a wallet's
   manager that connects to N1 and an outsider that announces peers to it *)

InitPeers ==
    /\ InitNodes
    /\ miners = {"N1"}
    /\ InitMining

NextPeers ==
    \/ \E p \in Pairs : Connect(p[1], p[2])
    \/ \E p \in Pairs : Deliver(p[1], p[2])
    \/ WalletConnect("N1")
    \/ WalletDisconnect("N1")
    \/ InjectPeerDiscovery("N1")
    \/ MiningTick("N1")
    \/ SubmitTransaction("N1")
    \/ \E n \in Nodes : InjectDefectiveBlock(n)

SpecPeers == InitPeers /\ [][NextPeers]_vars

----------------------------------------------------------------------------
(* SpecApi: the Blockchain of one node, with replaceChain called on it *)

InitApi ==
    /\ InitNodes
    /\ miners \in SUBSET {"N1"}
    /\ InitMining

NextApi ==
    \/ PeerBlock("N1")
    \/ MiningTick("N1")
    \/ InjectChainResponse("N1")
    \/ ReplaceChain("N1")
    \/ \E a \in Keys : GetAccountBalance("N1", a)

SpecApi == InitApi /\ [][NextApi]_vars

----------------------------------------------------------------------------
(* SpecChain: the Blockchain of one node, with createBlock called on it *)

InitChain ==
    /\ InitNodes
    /\ miners = {}
    /\ InitMining

NextChain ==
    \/ CreateBlock("N1")
    \/ \E a \in Keys : GetAccountBalance("N1", a)

SpecChain == InitChain /\ [][NextChain]_vars

----------------------------------------------------------------------------
(* SpecWire: one node, a MiningNode or a plain manager, with a wallet's
   manager attached and an outsider that sends frames of any shape, among
   them advertisements of a peer that listens and of one that does not *)

InitWire ==
    /\ InitNodes
    /\ miners \in SUBSET {"N1"}
    /\ InitMining

NextWire ==
    \/ InjectMalformed("N1")
    \/ InjectPeerDiscovery("N1")
    \/ InjectNodeDiscovery("N1")
    \/ WalletConnect("N1")
    \/ WalletDisconnect("N1")
    \/ PeerBlock("N1")
    \/ SubmitTransaction("N1")
    \/ MiningTick("N1")

SpecWire == InitWire /\ [][NextWire]_vars

----------------------------------------------------------------------------
(* SpecWallet: the mining node N1 and the manager N2 of a wallet, which
   connects to N1; frames of PEER_DISCOVERY reach the wallet's manager from
   the socket of a node that advertises peers *)

InitWallet ==
    /\ InitManagers({"N2"})
    /\ miners = {"N1"}
    /\ InitMining

NextWallet ==
    \/ connectToNode("N2", "N1")
    \/ \E p \in Pairs : Deliver(p[1], p[2])
    \/ InjectPeerDiscovery("N2")
    \/ InjectNodeDiscovery("N2")
    \/ MiningTick("N1")
    \/ SubmitTransaction("N1")

SpecWallet == InitWallet /\ [][NextWallet]_vars

----------------------------------------------------------------------------
(* SpecMiner: one MiningNode from its construction on, with the calls that
   start and stop it and its mining, the ticks of its interval and the blocks
   another miner sends while it is active *)

InitMiner ==
    /\ InitNodes
    /\ miners = {"N1"}
    /\ mining = [n \in Managers |-> ConstructedMiner]

NextMiner ==
    \/ Start("N1")
    \/ ConnectMiningWallet("N1")
    \/ StartMining("N1")
    \/ StopMining("N1")
    \/ DisconnectWallet("N1")
    \/ Stop("N1")
    \/ MiningTick("N1")
    \/ mining["N1"].isActive /\ PeerBlock("N1")

SpecMiner == InitMiner /\ [][NextMiner]_vars

----------------------------------------------------------------------------
(* SpecGossip: the MiningNode N1 and the plain managers N2 and N3 in a ring,
   each the peer of the other two after their handshakes, announcements and
   chain requests have been handled; N1 mines, the wallet of A submits one
   payment at one of the three, and every frame is delivered in order; each
   node's relays are observed *)

\* the BLOCK frame at the head of the link from a to b is handled by b, whose
\* chain has reached the bound of the model and refuses the block
DeliverAtBound(a, b) ==
    /\ net[<<a, b>>] # <<>>
    /\ Head(net[<<a, b>>]).type = "BLOCK"
    /\ ~(Len(chain[b]) < MaxChain)
    /\ LET f == Head(net[<<a, b>>])
           nt == [net EXCEPT ![<<a, b>>] = Tail(@)]
       IN  /\ ~isValidNewBlock(chain[b], Difficulty(b), f.payload[1])
           /\ IF b \in miners
              THEN MinerHandleNewBlock(b, f.payload[1], f.sender, nt) /\ relayed' = relayed
              ELSE ManagerHandleNewBlock(b, f.payload[1], f.sender, nt) /\ mining' = mining
    /\ UNCHANGED <<balances, confirmations, mempool, peers, knownPeers, walletConnections, miners, now, isWalletNode>>

\* the wallet of A submits its payment once, at a node n on whose chain A
\* holds the amount
SubmitOnce(n) ==
    /\ 1 \notin UsedIds
    /\ getAccountBalance(chain[n], "A") >= Amount
    /\ SubmitTransaction(n)

InitGossip ==
    /\ isWalletNode = [n \in Managers |-> FALSE]
    /\ chain = [n \in Managers |-> ConstructedChain(Difficulty(n))]
    /\ balances = [n \in Managers |-> EmptyMap]
    /\ confirmations = [n \in Managers |-> EmptyMap]
    /\ mempool = [n \in Managers |-> <<>>]
    /\ peers = [n \in Managers |-> Managers \ {n}]
    /\ knownPeers = [n \in Managers |-> Managers \ {n}]
    /\ walletConnections = [n \in Managers |-> {}]
    /\ net = [p \in Links |-> <<>>]
    /\ now = 0
    /\ relayed = [n \in Managers |-> [TRANSACTION |-> <<>>, BLOCK |-> <<>>]]
    /\ last = Result("init", "N1")
    /\ miners = {"N1"}
    /\ InitMining

NextGossip ==
    \/ \E n \in Managers : SubmitOnce(n)
    \/ \E p \in Links : Deliver(p[1], p[2])
    \/ \E p \in Links : DeliverAtBound(p[1], p[2])
    \/ MiningTick("N1")

\* a socket's 'message' callbacks run for every frame that has arrived
SpecGossip ==
    /\ InitGossip
    /\ [][NextGossip]_vars
    /\ \A p \in Links : WF_vars(Deliver(p[1], p[2]) \/ DeliverAtBound(p[1], p[2]))

----------------------------------------------------------------------------
(* SpecDial: the MiningNode N1 and the plain manager N2, each of which may
   call connectToPeer with the other's address at any time, so that a second
   socket between the two can open while the handshake of the first is still
   in flight; the frames of both sockets arrive in some order, and a wallet's
   manager connects to N1 and leaves *)

\* NetworkManager.connectToPeer(address of m) called on n: P2PNode.connectToPeer
\* returns when a peer of the table has the address, else a socket opens and
\* each side sends its HANDSHAKE on it
ConnectToPeer(n, m) ==
    /\ net' = connectToPeer(net, n, Address(m))
    /\ net' # net
    /\ Fits(net')
    /\ last' = Result("connectToPeer", n)
    /\ UNCHANGED <<chain, balances, confirmations, mempool, peers, knownPeers, walletConnections, miners, now, isWalletNode, mining, relayed>>

InitDial ==
    /\ InitNodes
    /\ miners = {"N1"}
    /\ InitMining

NextDial ==
    \/ \E p \in Pairs : ConnectToPeer(p[1], p[2])
    \/ \E p \in Pairs : Deliver(p[1], p[2])
    \/ WalletConnect("N1")
    \/ WalletDisconnect("N1")

SpecDial == InitDial /\ [][NextDial]_vars

----------------------------------------------------------------------------
(* Properties *)

\* C1: in every reachable state of every node, every block at position i >= 1
\* of the chain has index i, a previous hash equal to the hash of the block at
\* position i-1, a hash with D leading zeros, and a hash equal to the hash
\* recomputed from the block's own fields.
C1_ChainWellFormed ==
    \A n \in Nodes : \A i \in 2..Len(chain[n]) :
        /\ chain[n][i].index = i - 1
        /\ chain[n][i].previousHash = chain[n][i - 1].hash
        /\ StartsWithZeros(chain[n][i].hash, Difficulty(n))
        /\ chain[n][i].hash = calculateHash(chain[n][i])

\* C2: a replaceChain call that fails at some block leaves the node's chain,
\* its balances index and its confirmations index as they were before the call.
C2_ReplaceChainAtomic ==
    [][(last'.op \in {"replaceChain", "handleChainResponse"} /\ last'.threw)
          => /\ chain' = chain
             /\ balances' = balances
             /\ confirmations' = confirmations]_vars

\* a chain that is valid as section 4 of the specification asks: a chain that is
\* well formed from the genesis g on, each block with one signed coinbase of the
\* reward of its index and signed transfers, no sender ever spending more than
\* its running balance
RECURSIVE NeverOverspends(_, _, _)
NeverOverspends(txs, k, bal) ==
    IF k > Len(txs) THEN TRUE
    ELSE LET tx == txs[k] IN
         IF tx.isCoinbase
         THEN NeverOverspends(txs, k + 1, [bal EXCEPT ![tx.recipient] = @ + tx.amount])
         ELSE /\ bal[tx.sender] >= tx.amount
              /\ NeverOverspends(txs, k + 1,
                     [bal EXCEPT ![tx.sender] = @ - tx.amount,
                                 ![tx.recipient] = bal[tx.recipient] + tx.amount
                                     - (IF tx.recipient = tx.sender THEN tx.amount ELSE 0)])

RECURSIVE Concat(_, _)
Concat(c, i) == IF i > Len(c) THEN <<>> ELSE c[i].transactions \o Concat(c, i + 1)

ValidChain(g, difficulty, c) ==
    /\ Len(c) >= 1
    /\ c[1] = g
    /\ \A i \in 2..Len(c) :
           /\ c[i].index = i - 1
           /\ c[i].previousHash = c[i - 1].hash
           /\ StartsWithZeros(c[i].hash, difficulty)
           /\ c[i].hash = calculateHash(c[i])
           /\ Cardinality({k \in 1..Len(c[i].transactions) :
                              c[i].transactions[k].isCoinbase}) = 1
           /\ \A k \in 1..Len(c[i].transactions) :
                  LET tx == c[i].transactions[k] IN
                  /\ tx.recipient \in Keys
                  /\ tx.amount > 0
                  /\ IF tx.isCoinbase
                     THEN /\ tx.sender = Null
                          /\ tx.amount = ExpectedReward(c[i].index)
                          /\ tx.signature = Sign(tx, tx.recipient)
                     ELSE /\ tx.sender \in Keys
                          /\ tx.signature = Sign(tx, tx.sender)
    /\ NeverOverspends(Concat(c, 2), 1, [k \in Keys |-> 0])

\* C3: when N1 holds a valid chain longer than N2's, N2's CHAIN_REQUEST is
\* answered by N1 with a CHAIN_RESPONSE that carries N1's chain, and when N2
\* handles that response N2's chain becomes N1's chain, block for block, and
\* N1's chain does not change.
C3_ConvergenceByOneSync ==
    [][/\ (/\ net[<<"N2", "N1">>] # <<>>
           /\ Head(net[<<"N2", "N1">>]).type = "CHAIN_REQUEST"
           /\ last'.op = "handleChainRequest" /\ last'.node = "N1")
          => /\ net'[<<"N1", "N2">>] # <<>>
             /\ net'[<<"N1", "N2">>][Len(net'[<<"N1", "N2">>])]
                    = Frame("CHAIN_RESPONSE", chain["N1"], "N1")
             /\ chain' = chain
       /\ (/\ net[<<"N1", "N2">>] # <<>>
           /\ Head(net[<<"N1", "N2">>]) = Frame("CHAIN_RESPONSE", chain["N1"], "N1")
           /\ ValidChain(ConstructedChain(Difficulty("N1"))[1], Difficulty("N1"),
                         chain["N1"])
           /\ Len(chain["N2"]) < Len(chain["N1"])
           /\ last'.op = "handleChainResponse" /\ last'.node = "N2")
          => /\ chain'["N2"] = chain["N1"]
             /\ chain'["N1"] = chain["N1"]]_vars

\* N2 has adopted, from a CHAIN_RESPONSE, the chain of three blocks N1 holds
C3_Witness ==
    /\ last.op = "handleChainResponse" /\ last.node = "N2" /\ last.ok
    /\ chain["N2"] = chain["N1"]
    /\ Len(chain["N2"]) = MaxChain
    /\ ValidChain(ConstructedChain(Difficulty("N1"))[1], Difficulty("N1"), chain["N1"])

\* C4: replaceChain(new) with a chain that is not longer than the current one
\* throws and leaves the chain, the balances index and the confirmations index
\* unchanged, and a CHAIN_RESPONSE that carries a chain of equal or shorter
\* length leaves the receiver's chain unchanged.
C4_OnlyLongerReplaces ==
    [][(/\ last'.op \in {"replaceChain", "handleChainResponse"}
        /\ last'.len <= Len(chain[last'.node]))
          => /\ chain' = chain
             /\ balances' = balances
             /\ confirmations' = confirmations
             /\ ~last'.ok
             /\ last'.op = "replaceChain" => last'.threw]_vars

\* replaceChain has thrown on a chain as long as the node's chain of two blocks
C4_Witness ==
    /\ last.op = "replaceChain" /\ last.threw
    /\ last.len = Len(chain[last.node])
    /\ last.len = 2

\* C5: in every reachable state of every node, chain[0] is the genesis block
\* the node built at construction.
C5_GenesisFixed ==
    \A n \in Nodes :
        /\ Len(chain[n]) >= 1
        /\ chain[n][1] = ConstructedChain(Difficulty(n))[1]

\* the node has replaced its chain by a received one of three blocks
C5_Witness ==
    /\ last.op = "handleChainResponse" /\ last.ok
    /\ Len(chain[last.node]) = 3

\* C6: in every reachable state, every non-genesis block of a node's chain
\* holds exactly one coinbase transaction, whose amount is
\* INITIAL_BLOCK_REWARD / 2^floor(block.index / HALVING_INTERVAL).
C6_OneCoinbasePerBlock ==
    \A n \in Nodes : \A i \in 2..Len(chain[n]) :
        LET txs == chain[n][i].transactions
            at == {k \in 1..Len(txs) : txs[k].isCoinbase}
        IN  /\ Cardinality(at) = 1
            /\ \A k \in at :
                   txs[k].amount * (2 ^ (chain[n][i].index \div HALVING_INTERVAL))
                       = INITIAL_BLOCK_REWARD

\* the node has appended a received block of two transactions to a chain of two
C6_Witness ==
    /\ last.op = "handleNewBlock" /\ last.ok
    /\ Len(chain[last.node]) = 3
    /\ Len(chain[last.node][3].transactions) = 2

\* the sum of the amounts of the transactions of txs[k..] whose recipient (side
\* "recipient") or sender (side "sender") is the address
RECURSIVE SumWhere(_, _, _, _)
SumWhere(txs, k, address, side) ==
    IF k > Len(txs) THEN 0
    ELSE (IF (IF side = "recipient" THEN txs[k].recipient ELSE txs[k].sender) = address
          THEN txs[k].amount ELSE 0)
         + SumWhere(txs, k + 1, address, side)

\* C7: getAccountBalance(address).confirmed is the sum of the amounts of the
\* chain's transactions whose recipient is the address minus the sum of the
\* amounts of those whose sender is the address, and the call leaves the chain
\* as it was.
C7_BalanceIsCreditsMinusDebits ==
    [][last'.op = "getAccountBalance"
          => /\ last'.value =
                    SumWhere(Concat(chain[last'.node], 1), 1, last'.arg[1], "recipient")
                    - SumWhere(Concat(chain[last'.node], 1), 1, last'.arg[1], "sender")
             /\ chain' = chain]_vars

\* getAccountBalance has returned, for A, a reward less a payment
C7_Witness ==
    /\ last.op = "getAccountBalance"
    /\ last.arg = <<"A">>
    /\ last.value = INITIAL_BLOCK_REWARD - Amount

\* the sum of the amounts of the coinbase transactions of txs[k..]
RECURSIVE SumCoinbase(_, _)
SumCoinbase(txs, k) ==
    IF k > Len(txs) THEN 0
    ELSE (IF txs[k].isCoinbase THEN txs[k].amount ELSE 0) + SumCoinbase(txs, k + 1)

\* C8: in every reachable state of a node, the sum of the coinbase amounts of
\* its chain equals the sum over all addresses of their confirmed balances.
C8_Conservation ==
    \A n \in Nodes :
        SumCoinbase(Concat(chain[n], 1), 1)
            = getAccountBalance(chain[n], "A") + getAccountBalance(chain[n], "B")

\* C9: after any sequence of addTransaction, removeTransaction(s), cleanup and
\* clear calls the mempool holds no coinbase transaction, no two entries with
\* the same id, and at most maxTransactions entries.
C9_MempoolWellFormed ==
    \A n \in Nodes :
        /\ \A k \in 1..Len(mempool[n]) : ~mempool[n][k].isCoinbase
        /\ \A j, k \in 1..Len(mempool[n]) :
               mempool[n][j].id = mempool[n][k].id => j = k
        /\ Len(mempool[n]) <= maxTransactions

\* addTransaction has refused a transaction while the mempool is full
C9_Witness ==
    /\ last.op = "addTransaction" /\ ~last.ok
    /\ Len(mempool[last.node]) = maxTransactions

\* C10: when addTransaction has admitted a transaction, an immediate second
\* addTransaction of the same transaction returns false and leaves the mempool
\* as it was.
C10_AddTransactionIdempotent ==
    [][(last'.op = "addTransaction" /\ last'.again)
          => /\ ~last'.ok
             /\ mempool' = mempool]_vars

\* the second addTransaction of an admitted transaction has been refused while
\* the mempool had room
C10_Witness ==
    /\ last.op = "addTransaction" /\ last.again /\ ~last.ok
    /\ Len(mempool[last.node]) < maxTransactions

\* C11: in every reachable state of a node, for each sender of a mempool
\* entry, the amounts of that sender's mempool entries sum to at most the
\* sender's confirmed balance on the node's chain.
C11_NoQueuedOverspend ==
    \A n \in Nodes : \A k \in 1..Len(mempool[n]) :
        SumWhere(mempool[n], 1, mempool[n][k].sender, "sender")
            <= SumWhere(Concat(chain[n], 1), 1, mempool[n][k].sender, "recipient")
               - SumWhere(Concat(chain[n], 1), 1, mempool[n][k].sender, "sender")

\* C12: immediately after cleanup() no mempool entry has now - timestamp
\* greater than the timeout, and every entry that was not older than the
\* timeout is still present.
C12_CleanupExact ==
    [][last'.op = "cleanup"
          => LET n == last'.node IN
             /\ \A k \in 1..Len(mempool'[n]) :
                    ~(now' - mempool'[n][k].timestamp > TransactionTimeout)
             /\ \A k \in 1..Len(mempool[n]) :
                    ~(now - mempool[n][k].timestamp > TransactionTimeout)
                        => \E j \in 1..Len(mempool'[n]) : mempool'[n][j] = mempool[n][k]
             /\ now' = now]_vars

\* cleanup has deleted an entry and kept another
C12_Witness ==
    /\ last.op = "cleanup"
    /\ last.value >= 1
    /\ Len(mempool[last.node]) >= 1

\* C13: whenever a node of either role accepts a BLOCK from sender s as its
\* new head, it appends the block and sends a BLOCK frame carrying it to every
\* peer of its table that is neither a wallet connection nor s, and to no one
\* else.
C13_AcceptedBlockRelayed ==
    [][\A n \in Nodes :
          (last'.op = "handleNewBlock" /\ last'.node = n /\ last'.ok)
              => /\ chain'[n] = Append(chain[n], last'.arg[1])
                 /\ \A p \in Nodes \ {n} :
                        IF p \in peers[n] /\ p \notin walletConnections[n] /\ p # last'.from
                        THEN net'[<<n, p>>]
                                 = Append(net[<<n, p>>], Frame("BLOCK", last'.arg, n))
                        ELSE Len(net'[<<n, p>>]) <= Len(net[<<n, p>>])
                 /\ last'.to \cap walletConnections[n] = {}]_vars

\* the transactions of a block are one coinbase paying the reward of the
\* block's height and signed by its recipient, and payments signed by their
\* senders
ValidTransactionSet(block) ==
    /\ Cardinality({k \in 1..Len(block.transactions) :
                       block.transactions[k].isCoinbase}) = 1
    /\ \A k \in 1..Len(block.transactions) :
           LET tx == block.transactions[k] IN
           /\ tx.recipient \in Keys
           /\ tx.amount > 0
           /\ IF tx.isCoinbase
              THEN /\ tx.sender = Null
                   /\ tx.amount = ExpectedReward(block.index)
                   /\ tx.signature = Sign(tx, tx.recipient)
              ELSE /\ tx.sender \in Keys
                   /\ tx.signature = Sign(tx, tx.sender)

\* block fails validation as the new head of chain c
FailsNewHead(c, difficulty, block) ==
    \/ block.index # Len(c)
    \/ block.previousHash # c[Len(c)].hash
    \/ block.hash # calculateHash(block)
    \/ ~StartsWithZeros(block.hash, difficulty)
    \/ ~ValidTransactionSet(block)

C15_TransactionRelay ==
    [][\A n \in Nodes :
          (last'.op = "addTransaction" /\ last'.node = n)
              => IF last'.ok
                 THEN /\ \E k \in 1..Len(mempool'[n]) : mempool'[n][k] = last'.arg[1]
                      /\ \A p \in Nodes \ {n} :
                             IF /\ p \in peers[n] /\ p \notin walletConnections[n]
                                /\ p # last'.from
                             THEN net'[<<n, p>>]
                                      = Append(net[<<n, p>>],
                                               Frame("TRANSACTION", last'.arg, n))
                             ELSE Len(net'[<<n, p>>]) <= Len(net[<<n, p>>])
                      /\ last'.to = (peers[n] \ walletConnections[n]) \ {last'.from}
                 ELSE /\ mempool'[n] = mempool[n]
                      /\ \A p \in Nodes \ {n} : Len(net'[<<n, p>>]) <= Len(net[<<n, p>>])
                      /\ last'.to = {}]_vars

\* a node with a wallet attached has admitted a transaction and sent it to
\* its full-node peer
C15_Witness ==
    /\ last.op = "addTransaction"
    /\ last.ok
    /\ last.to = {"N2"}
    /\ Wallet \in walletConnections[last.node]
    /\ \E k \in 1..Len(net[<<last.node, "N2">>]) :
           net[<<last.node, "N2">>][k] = Frame("TRANSACTION", last.arg, last.node)

\* C16: whenever the chain of a node gains a block (mined by the node,
\* accepted from a BLOCK frame, or adopted with a replacing chain), no
\* transaction of the blocks gained is in the node's mempool afterwards.
C16_IncludedLeaveMempool ==
    [][\A n \in Nodes :
          Len(chain'[n]) > Len(chain[n])
              => \A i \in (Len(chain[n]) + 1)..Len(chain'[n]) :
                     \A k \in 1..Len(chain'[n][i].transactions) :
                         \A j \in 1..Len(mempool'[n]) :
                             mempool'[n][j].id # chain'[n][i].transactions[k].id]_vars

\* C17: in every reachable state a connection that handshook with the wallet
\* sentinel is in walletConnections, is not returned by getPeers(), is not in
\* knownPeers and was sent no BLOCK or TRANSACTION by the last step; knownPeers
\* and walletConnections have no id in common.
C17_WalletConnectionsApart ==
    \A n \in Nodes :
        /\ Wallet \in peers[n] => Wallet \in walletConnections[n]
        /\ \A w \in walletConnections[n] : w \notin getPeers(n) /\ w \notin knownPeers[n]
        /\ last.node = n => last.to \cap walletConnections[n] = {}
        /\ knownPeers[n] \cap walletConnections[n] = {}

\* C18: when a mining tick runs while a BLOCK frame that is valid as the new
\* head of the miner's chain is the next frame to arrive from a peer, the
\* search is abandoned: the tick appends no block and sends none.
C18_MiningPreempted ==
    [][\A n \in Nodes :
          (/\ last'.op = "mine" /\ last'.node = n
           /\ \E a \in Nodes \ {n} :
                  /\ net[<<a, n>>] # <<>>
                  /\ Head(net[<<a, n>>]).type = "BLOCK"
                  /\ ~FailsNewHead(chain[n], Difficulty(n),
                                   Head(net[<<a, n>>]).payload[1]))
              => /\ ~last'.ok
                 /\ chain'[n] = chain[n]
                 /\ last'.to = {}]_vars

\* C19: after a mining tick that succeeds the miner's chain is one block
\* longer; the block at the tip is the coinbase of the miner followed by
\* transactions taken from its mempool, as many as the block has room for;
\* none of them is in the mempool any more while the others still are; and a
\* BLOCK frame carrying the block has been sent to every peer of the table that
\* is not a wallet connection, and to no one else.
C19_MiningTickEffects ==
    [][\A n \in Nodes :
          (last'.op = "mine" /\ last'.node = n /\ last'.ok)
              => /\ Len(chain'[n]) = Len(chain[n]) + 1
                 /\ SubSeq(chain'[n], 1, Len(chain[n])) = chain[n]
                 /\ LET block == chain'[n][Len(chain'[n])]
                        selected == Tail(block.transactions)
                    IN  /\ last'.arg = <<block>>
                        /\ block.transactions[1].isCoinbase
                        /\ block.transactions[1].recipient = MiningKey(n)
                        /\ Len(selected)
                               = Min(Len(mempool[n]), MAX_TRANSACTIONS_PER_BLOCK - 1)
                        /\ \A k \in 1..Len(selected) :
                               /\ ~selected[k].isCoinbase
                               /\ \E j \in 1..Len(mempool[n]) : mempool[n][j] = selected[k]
                               /\ \A j \in 1..Len(mempool'[n]) :
                                      mempool'[n][j].id # selected[k].id
                        /\ \A j \in 1..Len(mempool[n]) :
                               (\A k \in 1..Len(selected) : selected[k] # mempool[n][j])
                                   => \E i \in 1..Len(mempool'[n]) :
                                          mempool'[n][i] = mempool[n][j]
                        /\ \A p \in Nodes \ {n} :
                               IF p \in peers[n] /\ p \notin walletConnections[n]
                               THEN net'[<<n, p>>]
                                        = Append(net[<<n, p>>], Frame("BLOCK", <<block>>, n))
                               ELSE Len(net'[<<n, p>>]) <= Len(net[<<n, p>>])
                        /\ last'.to = peers[n] \ walletConnections[n]]_vars

\* a miner with a wallet attached has mined a block that carries a transaction
\* of its mempool and has sent it to its full-node peer
C19_Witness ==
    /\ last.op = "mine"
    /\ last.ok
    /\ last.value >= 1
    /\ last.to = {"N2"}
    /\ Wallet \in peers[last.node]
    /\ Len(getLastBlock(chain[last.node]).transactions) >= 2

\* C20: when createBlock is called on a chain for which isValid() holds,
\* isValid() holds for the chain right after the call.
C20_CreateBlockKeepsValid ==
    [][(last'.op = "createBlock" /\ isValid(chain[last'.node]))
          => isValid(chain'[last'.node])]_vars

\* C21: in every reachable state every transaction of every block of a node's
\* chain has an entry in the node's confirmations index, and
\* getTransactionStatus returns CONFIRMED for it.
C21_IncludedIsConfirmed ==
    \A n \in Nodes : \A i \in 2..Len(chain[n]) :
        \A k \in 1..Len(chain[n][i].transactions) :
            /\ chain[n][i].transactions[k].id \in DOMAIN confirmations[n]
            /\ getTransactionStatus(confirmations[n], chain[n][i].transactions[k].id)
                   = "CONFIRMED"

\* C22: when a node handles a BLOCK from a peer s that it cannot append
\* because the block's index is greater than the length of its chain or the
\* block's previous hash is not the hash of its tip, it sends a CHAIN_REQUEST
\* to s.
C22_UnappendableBlockAsksForChain ==
    [][\A n \in Nodes : \A s \in Nodes \ {n} :
          (/\ last'.op = "handleNewBlock" /\ last'.node = n /\ last'.from = s
           /\ s \in peers[n]
           /\ \/ last'.arg[1].index > Len(chain[n])
              \/ last'.arg[1].previousHash # getLastBlock(chain[n]).hash)
              => net'[<<n, s>>]
                     = Append(net[<<n, s>>], Frame("CHAIN_REQUEST", <<>>, n))]_vars

\* C23: handling a malformed frame (unparseable data, an unknown type, a BLOCK
\* without a block, a CHAIN_RESPONSE without a chain or with an empty one, a
\* PEER_DISCOVERY whose entry lacks its id or its address) leaves no uncaught
\* error or unhandled rejection and leaves the chain, the mempool and the
\* peer table as they were.
C23_MalformedInputHarmless ==
    [][(\/ last'.op = "malformed"
        \/ last'.op = "handleChainResponse" /\ last'.len = 0
        \/ /\ last'.op = "handlePeerDiscovery"
           /\ DOMAIN last'.arg[1] # {"id", "address"})
          => /\ ~last'.unhandled
             /\ chain' = chain
             /\ mempool' = mempool
             /\ peers' = peers]_vars

\* C24: on the chain of any reachable state, validateTransaction returns false
\* for every non-coinbase transaction whose amount exceeds the confirmed
\* balance of its sender (as it does for a null sender, an empty recipient, an
\* amount that is not positive and a signature that does not verify).
C24_ValidateChecksBalance ==
    \A n \in Nodes : \A tx \in TransactionInputs(now) :
        (\/ tx.sender = Null
         \/ tx.recipient = ""
         \/ tx.amount <= 0
         \/ tx.signature # Sign(tx, tx.sender)
         \/ tx.amount > getAccountBalance(chain[n], tx.sender))
            => (tx.isCoinbase \/ ~validateTransaction(tx))

\* a transaction that is not a coinbase has a sender, a positive amount and
\* the signature of its sender
WellFormedPayment(tx) ==
    tx.isCoinbase
        \/ (/\ tx.sender # Null /\ tx.sender # ""
            /\ tx.amount > 0
            /\ tx.signature = Sign(tx, tx.sender))

\* C25: in every reachable state every non-coinbase transaction in a node's
\* chain or mempool has a non-null sender, an amount greater than 0 and a
\* signature that verifies under its sender's key.
C25_StoredPaymentsWellFormed ==
    \A n \in Nodes :
        /\ \A i \in 1..Len(chain[n]) : \A k \in 1..Len(chain[n][i].transactions) :
               WellFormedPayment(chain[n][i].transactions[k])
        /\ \A k \in 1..Len(mempool[n]) : WellFormedPayment(mempool[n][k])

\* a node holds a payment in a block of its chain and one in its mempool
C25_Witness ==
    /\ \E i \in 2..Len(chain["N1"]) : \E k \in 1..Len(chain["N1"][i].transactions) :
           ~chain["N1"][i].transactions[k].isCoinbase
    /\ Len(chain["N1"]) = MaxChain
    /\ Len(mempool["N1"]) >= 1

\* the step handles a HANDSHAKE that names p, on a socket to n: the frame at the
\* head of the link from p, or the handshake of the wallet's manager
HandshakeHandled(n, p) ==
    /\ last'.op = "peerConnected" /\ last'.node = n /\ last'.from = p
    /\ \/ p = Wallet
       \/ /\ p \in Nodes /\ net[<<p, n>>] # <<>>
          /\ Head(net[<<p, n>>]).type = "HANDSHAKE"
          /\ Head(net[<<p, n>>]).sender = p

\* C26: a remote node enters the peer table, and peerConnected fires, only in
\* the step that handles a HANDSHAKE frame of that node; a socket that opens
\* creates no entry and fires no event, and a frame of another type that comes
\* first (the outsider's frames) creates no entry.
C26_PeerOnlyAfterHandshake ==
    [][\A n \in Nodes :
          /\ \A p \in peers'[n] \ peers[n] : HandshakeHandled(n, p)
          /\ (last'.op = "peerConnected" /\ last'.node = n)
                 => HandshakeHandled(n, last'.from)
          /\ last'.op = "connect" => peers' = peers
          /\ Outsider \notin peers'[n]]_vars

\* N1 has handled the HANDSHAKE of N2 after a frame of the outsider
C26_Witness ==
    /\ last.op = "peerConnected" /\ last.node = "N1" /\ last.from = "N2"
    /\ "N2" \in peers["N1"]
    /\ Outsider \in knownPeers["N1"]

\* a node other than n listens at the address, so that a dial of n to it
\* establishes a connection
Listens(n, address) == \E m \in Nodes : m # n /\ Address(m) = address

\* C27: on PEER_DISCOVERY a node that is not a wallet node marks an advertised
\* peer that is unknown, not itself and not a wallet sentinel as known and
\* dials it; when the dial fails because no connection can be established the
\* peer id is removed from the known peers again.
C27_FailedDialUnmarks ==
    [][\A n \in Nodes :
          (/\ last'.op = "handlePeerDiscovery" /\ last'.node = n
           /\ "id" \in DOMAIN last'.arg[1] /\ "address" \in DOMAIN last'.arg[1])
          => LET peer == last'.arg[1]
             IN  (/\ peer.id \notin knownPeers[n] /\ peer.id # n
                  /\ ~includesSentinel(peer.address))
                 => IF Listens(n, peer.address)
                    THEN peer.id \in knownPeers'[n]
                    ELSE peer.id \notin knownPeers'[n]]_vars

\* the part of C27 that holds: the advertised peer is marked known, and dialled
\* when a node listens at its address
C27_MarksAndDials ==
    [][\A n \in Nodes :
          (/\ last'.op = "handlePeerDiscovery" /\ last'.node = n
           /\ "id" \in DOMAIN last'.arg[1] /\ "address" \in DOMAIN last'.arg[1])
          => LET peer == last'.arg[1]
             IN  (/\ peer.id \notin knownPeers[n] /\ peer.id # n
                  /\ ~includesSentinel(peer.address))
                 => /\ peer.id \in knownPeers'[n]
                    /\ (Listens(n, peer.address) /\ peer.id \notin peers[n])
                           => \E i \in 1..Len(net'[<<n, peer.id>>]) :
                                  net'[<<n, peer.id>>][i].type = "HANDSHAKE"]_vars

\* C28: the manager of a wallet never reacts to PEER_DISCOVERY (handling one
\* adds nothing to its known peers and dials no address) and never sends a
\* PEER_DISCOVERY frame.
C28_WalletManagerIgnoresDiscovery ==
    [][\A n \in Nodes :
          isWalletNode[n]
          => /\ knownPeers'[n] = knownPeers[n]
             /\ (last'.op = "handlePeerDiscovery" /\ last'.node = n)
                    => \A p \in Pairs :
                           p[1] = n => Len(net'[p]) <= Len(net[p])
             /\ \A p \in Pairs :
                    p[1] = n => \A i \in 1..Len(net'[p]) :
                                    net'[p][i].type # "PEER_DISCOVERY"]_vars

\* the wallet's manager, with the node in its peer table, has handled a
\* PEER_DISCOVERY that advertises a peer it could dial
C28_Witness ==
    /\ isWalletNode["N2"]
    /\ "N1" \in peers["N2"]
    /\ "N2" \in walletConnections["N1"]
    /\ last.op = "handlePeerDiscovery" /\ last.node = "N2"
    /\ last.arg = <<[id |-> Outsider, address |-> [host |-> "localhost", port |-> 4000]]>>

C30_ConfirmationCount ==
    \A n \in Nodes : \A id \in DOMAIN confirmations[n] :
        confirmations[n][id].confirmations
            = chain[n][Len(chain[n])].index - confirmations[n][id].blockHeight + 1

\* the last step changed the chain of n: a createBlock, an accepted BLOCK, a
\* mined block or a replaceChain that succeeded
ChainMutated(n) ==
    /\ last'.node = n
    /\ \/ last'.op = "createBlock"
       \/ last'.op \in {"handleNewBlock", "mine", "replaceChain", "handleChainResponse"}
              /\ last'.ok

\* C31: right after createBlock, after an accepted peer BLOCK, after a mined
\* block and after a replaceChain that succeeded, every entry of the node's
\* balances index has confirmed equal to the credits minus the debits of the
\* address over the node's chain.
C31_BalancesFollowChain ==
    [][\A n \in Nodes :
          ChainMutated(n)
              => \A a \in DOMAIN balances'[n] :
                     balances'[n][a] = getAccountBalance(chain'[n], a)]_vars

\* the part of C31 about replaceChain alone
C31_AfterReplaceChain ==
    [][\A n \in Nodes :
          (last'.node = n /\ last'.op \in {"replaceChain", "handleChainResponse"} /\ last'.ok)
              => \A a \in DOMAIN balances'[n] :
                     balances'[n][a] = getAccountBalance(chain'[n], a)]_vars

\* the difficulties a Blockchain is constructed with
MaxDifficulty == 4

\* C32: for every difficulty D passed to the Blockchain constructor the genesis
\* block, which a node built with D keeps at the head of its chain, has the
\* previous hash of D zeros, a 1 and 63 - D zeros, index 0, the fixed
\* timestamp, no transactions, nonce 0, the miner GENESIS and reward 0.
C32_GenesisByDifficulty ==
    \A d \in 0..MaxDifficulty :
        LET genesis == ConstructedChain(d)[1]
        IN  /\ \A n \in Nodes : Difficulty(n) = d => chain[n][1] = genesis
            /\ genesis.previousHash.str
                   = [i \in 1..HashLength |-> IF i = d + 1 THEN "1" ELSE "0"]
            /\ genesis.index = 0
            /\ genesis.timestamp = GenesisTimestamp
            /\ genesis.transactions = <<>>
            /\ genesis.nonce = 0
            /\ genesis.miner = "GENESIS"
            /\ genesis.reward = 0

\* the part of C32 that holds: the fields other than the previous hash, and a
\* previous hash that is the one character 1 whatever the difficulty
C32_GenesisAsBuilt ==
    \A d \in 0..MaxDifficulty :
        LET genesis == ConstructedChain(d)[1]
        IN  /\ genesis.previousHash.str = <<"1">>
            /\ genesis.index = 0
            /\ genesis.timestamp = GenesisTimestamp
            /\ genesis.transactions = <<>>
            /\ genesis.nonce = 0
            /\ genesis.miner = "GENESIS"
            /\ genesis.reward = 0
            /\ \A n \in Nodes : chain[n][1] = genesis

\* C33: the length of a node's chain never decreases, whatever mining ticks,
\* BLOCK frames and CHAIN_RESPONSE frames the node handles, those whose
\* replacement fails part-way included.
C33_ChainNeverShrinks ==
    [][\A n \in Nodes : Len(chain'[n]) >= Len(chain[n])]_vars

\* the part of C33 that holds: no step other than a replacement that throws
\* shortens a chain
C33_OnlyFailedReplacementShrinks ==
    [][\A n \in Nodes :
          Len(chain'[n]) < Len(chain[n])
              => /\ last'.op \in {"replaceChain", "handleChainResponse"}
                 /\ last'.node = n /\ last'.threw]_vars

\* the places <<block, position>> of a chain where a transaction that is not a
\* coinbase has the id
PlacesOf(c, id) ==
    {p \in (1..Len(c)) \X (1..MAX_TRANSACTIONS_PER_BLOCK + 1) :
        /\ p[2] <= Len(c[p[1]].transactions)
        /\ ~c[p[1]].transactions[p[2]].isCoinbase
        /\ c[p[1]].transactions[p[2]].id = id}

\* C34: in every reachable state of every node the id of a transaction occurs
\* in at most one block of the chain, and at most once in that block (stated for
\* the transactions that are not coinbases, those that mempools hold).
C34_NoDoubleConfirmation ==
    \A n \in Nodes : \A i \in 1..Len(chain[n]) :
        \A k \in 1..Len(chain[n][i].transactions) :
            ~chain[n][i].transactions[k].isCoinbase
                => PlacesOf(chain[n], chain[n][i].transactions[k].id) = {<<i, k>>}

\* C35: in every reachable state of every node every address has a confirmed
\* balance of at least 0 after every prefix of the chain: no block accepted
\* through a mining tick, a BLOCK frame or a CHAIN_RESPONSE debits a sender
\* below zero.
C35_NoOverspendOnChain ==
    \A n \in Nodes : \A i \in 1..Len(chain[n]) : \A a \in Keys :
        getAccountBalance(SubSeq(chain[n], 1, i), a) >= 0

\* the part of C35 about CHAIN_RESPONSE: a chain adopted whole by replaceChain,
\* when none of its coinbases names a sender, debits no sender below zero
C35_AdoptedChainNeverOverspends ==
    [][\A n \in Nodes :
          (/\ last'.op = "handleChainResponse" /\ last'.node = n /\ last'.ok
           /\ \A i \in 1..Len(chain'[n]) : \A k \in 1..Len(chain'[n][i].transactions) :
                  chain'[n][i].transactions[k].isCoinbase
                      => chain'[n][i].transactions[k].sender = Null)
              => \A i \in 1..Len(chain'[n]) : \A a \in Keys :
                     getAccountBalance(SubSeq(chain'[n], 1, i), a) >= 0]_vars

\* C36: in every reachable state of a mining node, whatever start,
\* connectMiningWallet, startMining, stopMining, disconnectWallet and stop
\* calls, ticks and received blocks came before: isMining is true exactly
\* when a mining timer is scheduled, at most one timer is scheduled, and
\* isMining implies that a mining wallet is attached.
C36_MiningFlagMatchesTimer ==
    \A n \in miners :
        /\ mining[n].isMining <=> mining[n].scheduled > 0
        /\ mining[n].scheduled <= 1
        /\ mining[n].isMining => mining[n].miningWallet # Null
        /\ mining[n].isMining <=> mining[n].miningInterval # Null

\* a started node that mines, with one interval scheduled, has mined a block on
\* top of a block it received
C36_Witness ==
    /\ mining["N1"].isMining /\ mining["N1"].scheduled = 1
    /\ mining["N1"].isActive
    /\ last.op = "mine" /\ last.ok
    /\ Len(chain["N1"]) = 3
    /\ chain["N1"][2].transactions[1].id = ForgedCoinbaseId


\* the number of times e occurs in the list log
Times(log, e) == Cardinality({k \in 1..Len(log) : log[k] = e})

\* no node has sent on the same transaction or the same block twice
RelayedAtMostOnce ==
    \A n \in DOMAIN relayed :
        /\ \A k \in 1..Len(relayed[n].TRANSACTION) :
               Times(relayed[n].TRANSACTION, relayed[n].TRANSACTION[k]) <= 1
        /\ \A k \in 1..Len(relayed[n].BLOCK) :
               Times(relayed[n].BLOCK, relayed[n].BLOCK[k]) <= 1

\* no frame is in flight
Quiet == \A p \in Links : net[p] = <<>>

\* C37: gossip terminates: with reliable links that deliver in order, each
\* node sends on the one submitted transaction, and each mined block, at most
\* once, and the network reaches a state with no frame in flight and stays
\* there
C37_GossipTerminates == [](RelayedAtMostOnce) /\ <>[]Quiet

\* the part of C37 that the code keeps: within the bounds of the model the
\* frames in flight run out
C37_GossipQuiesces == <>[]Quiet

\* a node sends on a block at most once
C37_BlockRelayedAtMostOnce ==
    \A n \in DOMAIN relayed :
        \A k \in 1..Len(relayed[n].BLOCK) :
            Times(relayed[n].BLOCK, relayed[n].BLOCK[k]) <= 1

\* C38: the two validators of a chain agree: a chain that passes isValidChain
\* and is longer than the local one is adopted whole by replaceChain, without
\* an error; so a handleChainResponse step leaves the node's chain as it was or
\* as long as the chain received (of which replaceChain builds it), never a
\* proper prefix of it
C38_ValidatorsAgree ==
    [][\A n \in Nodes :
          (last'.op = "handleChainResponse" /\ last'.node = n)
              => /\ ~last'.threw
                 /\ chain'[n] = chain[n] \/ Len(chain'[n]) = last'.len]_vars

\* the part of C38 that holds: a handleChainResponse step in which replaceChain
\* does not throw leaves the chain as it was or as long as the chain received,
\* and one in which it throws leaves a proper prefix
C38_WholeUnlessThrown ==
    [][\A n \in Nodes :
          (last'.op = "handleChainResponse" /\ last'.node = n)
              => IF last'.threw
                 THEN Len(chain'[n]) < last'.len
                 ELSE chain'[n] = chain[n] \/ Len(chain'[n]) = last'.len]_vars

\* C39: a mining tick is atomic with respect to the handlers of frames: the
\* block a tick appends is built on the chain as it is at the append, so its
\* index is the length of that chain, its previous hash is the hash of the
\* chain's last block, and the chain after the tick is that chain with the
\* block at its end
C39_TickBuildsOnTip ==
    [][\A n \in Nodes :
          (last'.op = "mine" /\ last'.node = n /\ last'.ok)
              => LET block == last'.arg[1]
                 IN  /\ chain'[n] = Append(chain[n], block)
                     /\ block.index = Len(chain[n])
                     /\ block.previousHash = getLastBlock(chain[n]).hash]_vars

\* the part of C39 that holds: the block a tick appends follows the last
\* block of the chain as it is at the append, in index and in previous hash,
\* and nothing else changes the chain in the step
C39_TickFollowsLastBlock ==
    [][\A n \in Nodes :
          (last'.op = "mine" /\ last'.node = n /\ last'.ok)
              => LET block == last'.arg[1]
                 IN  /\ chain'[n] = Append(chain[n], block)
                     /\ block.index = getLastBlock(chain[n]).index + 1
                     /\ block.previousHash = getLastBlock(chain[n]).hash]_vars

\* C40: the connection events of a node are well formed for each peer id:
\* peerConnected and peerDisconnected alternate, peerConnected first, and the
\* id is in the peer table exactly between them; so peerConnected fires for
\* an id only when the id is not in the table and enters it, peerDisconnected
\* only when it is in the table and leaves it, and the table changes in no
\* other step, whatever number of sockets carries the id
C40_ConnectionEventsAlternate ==
    [][\A n \in Managers :
          /\ (last'.op = "peerConnected" /\ last'.node = n)
                 => last'.from \notin peers[n] /\ last'.from \in peers'[n]
          /\ (last'.op = "peerDisconnected" /\ last'.node = n)
                 => last'.from \in peers[n] /\ last'.from \notin peers'[n]
          /\ peers'[n] # peers[n]
                 => /\ last'.op \in {"peerConnected", "peerDisconnected"}
                    /\ last'.node = n
                    /\ peers'[n] \in {peers[n] \cup {last'.from},
                                      peers[n] \ {last'.from}}]_vars

====
